---- MODULE Spec2Model ----
(***************************************************************************)
(* Task ledger, Status Updater, Notification Hub, stop command and the     *)
(* bounded batch runner of the IPTV aggregator backend.                    *)
(*                                                                         *)
(* Scheduling model.  Job drivers, batch workers, the stop handler and the *)
(* hub are coroutines of one asyncio event loop: a coroutine runs without  *)
(* interruption from one suspension point (an await that really waits) to  *)
(* the next, and each such stretch is one action.  update_task_status runs *)
(* its ledger access (_update_db) through asyncio.to_thread, so the read   *)
(* (session.get) and the commit (session.commit) of one call are steps of  *)
(* a worker thread that interleave with everything else, including with a  *)
(* synchronous block the event loop is in the middle of (stop_task).       *)
(***************************************************************************)
EXTENDS Integers, Sequences, FiniteSets, TLC

\* ------------------------------------------------------------------ bounds
MaxChannels == 3
MaxClients == 1

\* ------------------------------------------------------- program constants
RetryAttempts == 5
PollEvery == 2
ProgressBase == 60
ProgressSpan == 38
MinProgressStep == 2
FinalProgress == 100


Terminal == {"success", "failure", "canceled"}
NonTerminal == {"pending", "running"}
Statuses == Terminal \cup NonTerminal

\* Optional arguments (Python None / a value).
None == << >>
Some(x) == << x >>
IsSome(a) == a # None
Val(a) == a[1]

VARIABLES
    ledger,              \* the TaskRecord row of the task
    ever_canceled,       \* history: a commit has set the row's status to canceled
    journal,             \* history, where kept: the states of the row after each commit
    clients,             \* other callers of update_task_status: "idle", "called", "done"
    calls,               \* update_task_status calls in progress, by caller
    active_connections,  \* TaskNotifier.active_connections (a list)
    ws,                  \* each websocket: "new", "open", "broken", "stalled", "detached", "closed"
    last_seen,           \* per observer: progress of the last task_update received
    inbox,               \* history, per recorded observer: the payloads received, in order
    stop_pc, stop_snap, stop_result,   \* the stop_task handler (stop_snap: its dirty columns)
    dpc,                 \* position of the job driver
    channels,            \* the channels the driver loaded (their URLs)
    concurrency,         \* run_batch_check's concurrency argument
    driver,              \* which job driver runs the batch
    unique_channels,     \* run_batch_check's deduplicated list (channel ids)
    wpc,                 \* each _worker coroutine's position
    sem_value, waiters,  \* asyncio.Semaphore
    finished_count, last_reported_p, local_aborted, results,
    batch_ret,           \* what run_batch_check returned
    check_status,        \* Channel.check_status written back, by channel
    probe_calls,         \* check_stream_visual invocations, by URL
    done_before_abort,   \* history: workers whose probe returned while local_aborted was False
    fetch,               \* fetch_subscription_task: its position and locals
    sub_channels,        \* the committed Channel rows of the subscription
    records,             \* the status of the TaskRecord rows of the other tasks
    cleanup,             \* cleanup_tasks: its position and locals
    pending_futures,     \* _pending_futures of the EPG URL: the futures registered (none or one)
    futures,             \* the state of each future created for the URL
    refreshes,           \* the position of each _bg_refresh_at_url task
    cache,               \* EPGManager._cache holds the URL's programmes
    requests             \* the get_program calls: position, future awaited, answer

batchvars == << channels, concurrency, driver, unique_channels, wpc, sem_value, waiters, finished_count,
                last_reported_p, local_aborted, results, batch_ret, check_status,
                probe_calls, done_before_abort >>
stopvars == << stop_pc, stop_snap, stop_result >>
hubvars == << active_connections, ws, last_seen, inbox >>
tablevars == << records, cleanup >>
epgvars == << pending_futures, futures, refreshes, cache, requests >>
sidevars == << fetch, sub_channels, tablevars, epgvars >>
vars == << ledger, ever_canceled, journal, clients, calls, hubvars, stopvars, sidevars, dpc, batchvars >>

\* ------------------------------------------------------------- the ledger
\* A message text: its kind and, for the texts that embed a count, the count.
Msg(kind, n) == << kind, n >>
Row(s, p, m) == [exists |-> TRUE, status |-> s, progress |-> p, message |-> m]
\* The journal of the row's committed states: not kept, or kept from the row given
\* and the number of probes started after a commit had set the status to canceled,
\* and the number of progress updates the workers issued
NoJournal == [on |-> FALSE, rows |-> {}, late |-> 0, reports |-> 0, refused |-> FALSE]
JournalFrom(row) == [on |-> TRUE, rows |-> {row}, late |-> 0, reports |-> 0, refused |-> FALSE]
Record(j, row) == IF j.on THEN [j EXCEPT !.rows = @ \cup {row}] ELSE j
RecordProbe(j, after_cancel) ==
    IF j.on /\ after_cancel THEN [j EXCEPT !.late = @ + 1] ELSE j
RecordReport(j) == IF j.on THEN [j EXCEPT !.reports = @ + 1] ELSE j
RecordRefusal(j) == IF j.on THEN [j EXCEPT !.refused = TRUE] ELSE j

\* session.get returns None: the task has no row (yet)
NoRow == [exists |-> FALSE, status |-> "missing", progress |-> 0, message |-> Msg("none", 0)]

\* ------------------------------------------------------- dedup by URL
RECURSIVE UniqueFrom(_, _, _)
UniqueFrom(chs, i, seen) ==
    IF i > Len(chs) THEN << >>
    ELSE IF chs[i] \in seen THEN UniqueFrom(chs, i + 1, seen)
    ELSE << i >> \o UniqueFrom(chs, i + 1, seen \cup {chs[i]})

\* faulty variant: no dedup, every channel is kept
M_KeepAllChannels(chs) == [i \in 1 .. Len(chs) |-> i]
\* unique_channels: the channel ids (positions in channels) kept, in order
UniqueChannels(chs) == UniqueFrom(chs, 1, {})

\* total = len(unique_channels); one _worker per entry
total == Len(unique_channels)
Workers == DOMAIN wpc
\* Python's enumerate index of worker w
Idx(w) == w - 1
UrlOf(w) == channels[unique_channels[w]]

\* the websockets that exist in this run
Observers == DOMAIN ws

\* ------------------------------------------------------------- callers
DriverCaller == << "driver", 0 >>
StopCaller == << "stop", 0 >>
WorkerCaller(w) == << "worker", w >>
ClientCaller(k) == << "client", k >>
Callers == DOMAIN calls

NoCall == [phase |-> "none"]
Clean == [status |-> FALSE, progress |-> FALSE, message |-> FALSE]
NewCall(s, p, m) ==
    [phase |-> "thread_read", status |-> s, progress |-> p, message |-> m,
     attempts |-> 0, seen |-> "nothing", dirty |-> Clean, data |-> None, bpos |-> 1, dead |-> {}]

\* The event loop is inside stop_task's synchronous block (between its
\* session.get and its session.commit): no other coroutine can run.
LoopFree == stop_pc # "commit"
\* asyncio.gather has scheduled the workers and not all have run their first stretch
Starting == dpc = "batch" /\ \E w \in Workers : wpc[w] = "init"
LoopStep == LoopFree /\ ~Starting

\* ------------------------------------------------------ Status Updater
\* The terminal-state guard of _update_db: the row read is canceled or failure
\* and the call brings a status that is neither.
\* faulty variant: the guard protects canceled only
M_RejectedCanceledOnly(cur, status) ==
    /\ cur = "canceled"
    /\ IsSome(status)
    /\ Val(status) \notin {"canceled", "failure"}
\* faulty variant: the "status is not None" test is missing
M_RejectedWithoutNoneTest(cur, status) ==
    /\ cur \in {"canceled", "failure"}
    /\ (IsSome(status) => Val(status) \notin {"canceled", "failure"})
\* faulty variant: the guard stops only a pending or running status argument
M_RejectedNonTerminalOnly(cur, status) ==
    /\ cur \in {"canceled", "failure"}
    /\ IsSome(status)
    /\ Val(status) \in {"pending", "running"}
\* faulty variant: no guard
M_RejectedNever(cur, status) == FALSE
Rejected(cur, status) ==
    /\ cur \in {"canceled", "failure"}
    /\ IsSome(status)
    /\ Val(status) \notin {"canceled", "failure"}

\* the empty string, as a status and as a message
Blank == ""
BlankMsg == Msg("", 0)
\* `if status:` and `if message:` (lines 95 and 97): supplied and not empty
Truthy(x, empty) == IsSome(x) /\ Val(x) # empty

\* faulty variant: progress is tested like status and message (`if progress:`)
M_DirtyProgressTruthy(row, call) ==
    [status |-> Truthy(call.status, Blank) /\ Val(call.status) # row.status,
     progress |-> IsSome(call.progress) /\ Val(call.progress) # 0
                    /\ Val(call.progress) # row.progress,
     message |-> Truthy(call.message, BlankMsg) /\ Val(call.message) # row.message]
\* Lines 95-97 on the ORM object just loaded: a supplied field is assigned (status
\* and message when not empty, progress when not None), and the attribute is dirty
\* when the value assigned differs from the value loaded.
Dirty(row, call) ==
    [status |-> Truthy(call.status, Blank) /\ Val(call.status) # row.status,
     progress |-> IsSome(call.progress) /\ Val(call.progress) # row.progress,
     message |-> Truthy(call.message, BlankMsg) /\ Val(call.message) # row.message]

\* session.commit: the UPDATE carries exactly the dirty columns (and updated_at);
\* the other columns keep what the row holds at the time of the commit.
Commit(row, dirty, call) ==
    [row EXCEPT
        !.status = IF dirty.status THEN Val(call.status) ELSE @,
        !.progress = IF dirty.progress THEN Val(call.progress) ELSE @,
        !.message = IF dirty.message THEN Val(call.message) ELSE @]

\* faulty variant: one attempt too many
M_AfterFailedAttemptOneMore(call) ==
    IF call.attempts + 1 < RetryAttempts + 1
    THEN [call EXCEPT !.attempts = @ + 1]
    ELSE [call EXCEPT !.attempts = @ + 1, !.phase = "gave_up"]
\* _do_update after an attempt that returned None: sleep 0.5 s and try again,
\* at most RetryAttempts attempts in all; then give up without a broadcast.
AfterFailedAttempt(call) ==
    IF call.attempts + 1 < RetryAttempts
    THEN [call EXCEPT !.attempts = @ + 1]
    ELSE [call EXCEPT !.attempts = @ + 1, !.phase = "gave_up"]

\* Worker thread, _update_db lines 84-93: load the row, apply the guard.
\* seen: the status this attempt read ("missing": no row).
UpdRead(c) ==
    /\ calls[c].phase = "thread_read"
    /\ calls' = [calls EXCEPT ![c] =
          IF ~ledger.exists
          THEN AfterFailedAttempt([calls[c] EXCEPT !.seen = "missing"])
          ELSE IF Rejected(ledger.status, calls[c].status)
          THEN AfterFailedAttempt([calls[c] EXCEPT !.seen = ledger.status])
          ELSE [calls[c] EXCEPT !.phase = "thread_commit", !.seen = ledger.status,
                                !.dirty = Dirty(ledger, calls[c])]]
    /\ UNCHANGED << ledger, ever_canceled, journal, clients, hubvars, stopvars, sidevars, dpc, batchvars >>

\* faulty variant: no refresh, the record is built from the object in memory, whose
\* status is the one assigned or else the one loaded
M_ReturnedInMemory(after, call) ==
    [after EXCEPT !.status = IF Truthy(call.status, Blank)
                             THEN Val(call.status) ELSE call.seen]
\* _update_db lines 103-111: the row is read again after the commit and the record
\* returned is built from it
Returned(after, call) == after

\* Worker thread, _update_db lines 95-111: assign, commit, refresh, return the record.
UpdCommit(c) ==
    /\ calls[c].phase = "thread_commit"
    /\ ledger.exists
    /\ ledger' = Commit(ledger, calls[c].dirty, calls[c])
    /\ calls' = [calls EXCEPT ![c] =
          [@ EXCEPT !.phase = "broadcast", !.data = Some(Returned(ledger', calls[c])),
                    !.bpos = 1]]
    /\ ever_canceled' = (ever_canceled \/ ledger'.status = "canceled")
    /\ journal' = Record(journal, ledger')
    /\ UNCHANGED << clients, hubvars, stopvars, sidevars, dpc, batchvars >>

\* ------------------------------------------------------ Notification Hub
Remove(seq, gone) == SelectSeq(seq, LAMBDA x : x \notin gone)

\* The payload of the call's broadcast: who issued it and the record's status and
\* progress.
Payload(c) == << c, Val(calls[c].data).status, Val(calls[c].data).progress >>

\* TaskNotifier.broadcast, one turn of the loop over the live list: the connection
\* at the loop's index is taken and send_json is entered (it delivers, or raises on a
\* socket that is gone); the broadcast then stays suspended in that send, and what
\* happens to the list meanwhile is seen when the loop takes its next index.
Writable(state) == state \in {"open", "detached"}
UpdSend(c) ==
    /\ LoopStep
    /\ calls[c].phase = "broadcast"
    /\ calls[c].bpos <= Len(active_connections)
    /\ ws[active_connections[calls[c].bpos]] # "stalled"
    /\ LET o == active_connections[calls[c].bpos] IN
         IF Writable(ws[o])
         THEN /\ last_seen' = [last_seen EXCEPT ![o] = Some(Val(calls[c].data).progress)]
              /\ inbox' = IF o \in DOMAIN inbox
                          THEN [inbox EXCEPT ![o] = Append(@, Payload(c))]
                          ELSE inbox
              /\ calls' = [calls EXCEPT ![c] = [@ EXCEPT !.bpos = @ + 1]]
         ELSE /\ last_seen' = last_seen
              /\ inbox' = inbox
              /\ calls' = [calls EXCEPT ![c] =
                    [@ EXCEPT !.bpos = @ + 1, !.dead = @ \cup {o}]]
    /\ UNCHANGED << ledger, ever_canceled, journal, clients, active_connections, ws, stopvars, sidevars, dpc, batchvars >>

\* The call is at its end: the loop of broadcast is over (or every attempt failed)
\* and, with no suspension in between, broadcast drops the dead connections,
\* update_task_status returns and the awaiting coroutine goes on.
Finishing(c) ==
    \/ calls[c].phase = "gave_up"
    \/ calls[c].phase = "broadcast" /\ calls[c].bpos > Len(active_connections)

\* faulty variant: the dead connections are kept
M_HubAfterKeepsDead(c) == active_connections
\* active_connections after lines 39-40 of the finishing call
HubAfter(c) ==
    IF calls[c].phase = "broadcast"
    THEN Remove(active_connections, calls[c].dead)
    ELSE active_connections

\* tasks_websocket / TaskNotifier.connect
Connect(o) ==
    /\ LoopStep
    /\ ws[o] = "new"
    /\ ws' = [ws EXCEPT ![o] = "open"]
    /\ active_connections' = Append(active_connections, o)
    /\ UNCHANGED << ledger, ever_canceled, journal, clients, calls, last_seen, inbox, stopvars, sidevars, dpc, batchvars >>

\* The peer goes away: later sends on this socket raise.
Break(o) ==
    /\ ws[o] = "open"
    /\ ws' = [ws EXCEPT ![o] = "broken"]
    /\ UNCHANGED << ledger, ever_canceled, journal, clients, calls, active_connections, last_seen, inbox, stopvars, sidevars, dpc, batchvars >>

\* The peer stops reading and never resumes: a send_json on this socket is awaited
\* for ever (broadcast sets no timeout on it).
Stall(o) ==
    /\ ws[o] = "open"
    /\ ws' = [ws EXCEPT ![o] = "stalled"]
    /\ UNCHANGED << ledger, ever_canceled, journal, clients, calls, active_connections, last_seen, inbox, stopvars, sidevars, dpc, batchvars >>

\* faulty variant: disconnect leaves the list as it is
M_DisconnectedKeepsEntry(conns, o) == conns
\* TaskNotifier.disconnect: the first entry of the websocket, if there is one, is removed
Disconnected(conns, o) ==
    IF \E i \in 1 .. Len(conns) : conns[i] = o
    THEN LET i == CHOOSE k \in 1 .. Len(conns) :
                      conns[k] = o /\ \A m \in 1 .. k - 1 : conns[m] # o
         IN SubSeq(conns, 1, i - 1) \o SubSeq(conns, i + 1, Len(conns))
    ELSE conns

\* tasks_websocket's except branches / TaskNotifier.disconnect
Disconnect(o) ==
    /\ LoopStep
    /\ ws[o] = "broken"
    /\ ws' = [ws EXCEPT ![o] = "closed"]
    /\ active_connections' = Disconnected(active_connections, o)
    /\ UNCHANGED << ledger, ever_canceled, journal, clients, calls, last_seen, inbox, stopvars, sidevars, dpc, batchvars >>

\* tasks_websocket's `except Exception` branch (lines 65-66): receive_text raised on
\* a socket that is still writable; the handler disconnects it and returns.
Detach(o) ==
    /\ LoopStep
    /\ ws[o] = "open"
    /\ ws' = [ws EXCEPT ![o] = "detached"]
    /\ active_connections' = Disconnected(active_connections, o)
    /\ UNCHANGED << ledger, ever_canceled, journal, clients, calls, last_seen, inbox, stopvars, sidevars, dpc, batchvars >>

\* The server closes the socket of a handler that has returned.
Closed(o) ==
    /\ ws[o] = "detached"
    /\ ws' = [ws EXCEPT ![o] = "closed"]
    /\ UNCHANGED << ledger, ever_canceled, journal, clients, calls, active_connections, last_seen, inbox, stopvars, sidevars, dpc, batchvars >>

\* faulty variant: accept returns on any socket
M_AcceptsAlways(state) == TRUE
\* TaskNotifier.connect line 23: websocket.accept() returns on a socket that has not
\* been accepted yet; on any other it raises and line 24 is not reached.
Accepts(state) == state = "new"

\* TaskNotifier.connect called for a websocket that is connected already.
ConnectAgain(o) ==
    /\ LoopStep
    /\ ws[o] = "open"
    /\ journal.on /\ ~ journal.refused
    /\ journal' = RecordRefusal(journal)
    /\ active_connections' = IF Accepts(ws[o]) THEN Append(active_connections, o)
                             ELSE active_connections
    /\ UNCHANGED << ledger, ever_canceled, clients, calls, ws, last_seen, inbox, stopvars, sidevars, dpc, batchvars >>

\* ------------------------------------------------------ subscription sync
\* The Channel rows of the subscription before the sync, and what source k of its
\* address list delivers.
OldChannels == {"old1", "old2"}
SourceChannels(k) == {"new" \o ToString(k)}
Fetched(n) == UNION {SourceChannels(k) : k \in 1 .. n}

\* fetch_subscription_task is not running
NoFetch == [pc |-> "idle", total_urls |-> 0, i |-> 0, all_channels |-> {}, ret |-> "none"]
\* cleanup_tasks is not running
NoCleanup == [pc |-> "idle", finished_tasks |-> {}, count |-> 0]
\* no get_program call and no refresh exists
EpgIdle ==
    /\ pending_futures = {} /\ futures = << >> /\ refreshes = << >>
    /\ cache = FALSE /\ requests = << >>
SideIdle ==
    /\ fetch = NoFetch /\ sub_channels = {}
    /\ records = << >> /\ cleanup = NoCleanup
    /\ EpgIdle

\* fetch_subscription line 303: progress = int((i / total_urls) * 100)
SourceProgress(i, n) == (i * 100) \div n

\* fetch_subscription lines 291-303, the head of the loop for source i (from 0): the
\* row is read; canceled ends the fetch after a canceled update, otherwise the
\* progress update is awaited.
SourceHead(f) ==
    IF ledger.exists /\ ledger.status = "canceled"
    THEN /\ calls' = [calls EXCEPT ![DriverCaller] =
                         NewCall(Some("canceled"), None, Some(Msg("sync_aborted", 0)))]
         /\ fetch' = [f EXCEPT !.pc = "await_cancel"]
    ELSE /\ calls' = [calls EXCEPT ![DriverCaller] =
                         NewCall(None, Some(SourceProgress(f.i, f.total_urls)),
                                 Some(Msg("source", f.i + 1)))]
         /\ fetch' = [f EXCEPT !.pc = "await_progress"]

\* fetch_subscription_task lines 54-89, entered when fetch_subscription has returned
\* all_channels: the row is read before the first insert; canceled ends the task
\* with the session closed uncommitted; otherwise the channels are added and
\* committed, the row is read again and success is reported unless it is canceled.
Persist(f) ==
    IF f.all_channels # {} /\ (~ ledger.exists \/ ledger.status = "canceled")
    THEN /\ calls' = [calls EXCEPT ![DriverCaller] =
                         NewCall(Some("canceled"), None, Some(Msg("insert_aborted", 0)))]
         /\ fetch' = [f EXCEPT !.pc = "await_cancel_insert"]
         /\ UNCHANGED sub_channels
    ELSE /\ sub_channels' = f.all_channels
         /\ IF ~ ledger.exists \/ ledger.status = "canceled"
            THEN /\ calls' = [calls EXCEPT ![DriverCaller] = NoCall]
                 /\ fetch' = [f EXCEPT !.pc = "done", !.ret = "canceled"]
            ELSE /\ calls' = [calls EXCEPT ![DriverCaller] =
                       NewCall(Some("success"), Some(FinalProgress), Some(Msg("synced", 0)))]
                 /\ fetch' = [f EXCEPT !.pc = "await_final"]

\* fetch_subscription_task line 21
FetchStart ==
    /\ LoopStep
    /\ fetch.pc = "start"
    /\ calls' = [calls EXCEPT ![DriverCaller] =
                    NewCall(Some("running"), Some(0), Some(Msg("connecting", 0)))]
    /\ fetch' = [fetch EXCEPT !.pc = "await_running"]
    /\ UNCHANGED << ledger, ever_canceled, journal, clients, hubvars, stopvars, tablevars, epgvars, sub_channels, dpc, batchvars >>

\* lines 25-52 and the head of fetch_subscription: the old channels are deleted and
\* the deletion is committed, then the first source is taken.
FetchDeleteOld ==
    /\ LoopStep
    /\ fetch.pc = "await_running"
    /\ Finishing(DriverCaller)
    /\ active_connections' = HubAfter(DriverCaller)
    /\ sub_channels' = {}
    /\ SourceHead(fetch)
    /\ UNCHANGED << ledger, ever_canceled, journal, clients, ws, last_seen, inbox, stopvars, tablevars, epgvars, dpc, batchvars >>

\* fetch_subscription lines 316-317: the progress update returned, the source is requested
FetchRequest ==
    /\ LoopStep
    /\ fetch.pc = "await_progress"
    /\ Finishing(DriverCaller)
    /\ active_connections' = HubAfter(DriverCaller)
    /\ calls' = [calls EXCEPT ![DriverCaller] = NoCall]
    /\ fetch' = [fetch EXCEPT !.pc = "http"]
    /\ UNCHANGED << ledger, ever_canceled, journal, clients, ws, last_seen, inbox, stopvars, tablevars, epgvars, sub_channels, dpc, batchvars >>

\* lines 318-330: the source answered and its channels are appended; the next
\* source is taken, or fetch_subscription returns and the channels are persisted.
FetchResponse ==
    /\ LoopStep
    /\ fetch.pc = "http"
    /\ LET f == [fetch EXCEPT !.all_channels = @ \cup SourceChannels(fetch.i + 1),
                              !.i = @ + 1] IN
         IF f.i < f.total_urls
         THEN SourceHead(f) /\ UNCHANGED sub_channels
         ELSE Persist(f)
    /\ UNCHANGED << ledger, ever_canceled, journal, clients, hubvars, stopvars, tablevars, epgvars, dpc, batchvars >>

\* fetch_subscription lines 299-300: the canceled update returned; what was fetched
\* so far is returned and persisted.
FetchCanceled ==
    /\ LoopStep
    /\ fetch.pc = "await_cancel"
    /\ Finishing(DriverCaller)
    /\ active_connections' = HubAfter(DriverCaller)
    /\ Persist(fetch)
    /\ UNCHANGED << ledger, ever_canceled, journal, clients, ws, last_seen, inbox, stopvars, tablevars, epgvars, dpc, batchvars >>

\* fetch_subscription_task lines 62-63 and 90-92: the last update returned
FetchReturn ==
    /\ LoopStep
    /\ fetch.pc \in {"await_cancel_insert", "await_final"}
    /\ Finishing(DriverCaller)
    /\ active_connections' = HubAfter(DriverCaller)
    /\ calls' = [calls EXCEPT ![DriverCaller] = NoCall]
    /\ fetch' = [fetch EXCEPT !.pc = "done",
                              !.ret = IF fetch.pc = "await_final" THEN "success" ELSE "canceled"]
    /\ UNCHANGED << ledger, ever_canceled, journal, clients, ws, last_seen, inbox, stopvars, tablevars, epgvars, sub_channels, dpc, batchvars >>

\* ------------------------------------------------------ cleanup of the task table
\* The task table: the row of the task under study (ledger) and the rows of the
\* other tasks (records, id -> status).
LiveTask == "t0"
OtherTasks == {"t1", "t2"}
Present(id) == IF id = LiveTask THEN ledger.exists ELSE id \in DOMAIN records
StatusOf(id) == IF id = LiveTask THEN ledger.status ELSE records[id]
TaskRows == {id \in {LiveTask} \cup OtherTasks : Present(id)}

\* cleanup_tasks lines 42-45, the where clause of the select
Inactive(st) == st # "running" /\ st # "pending"

\* cleanup_tasks lines 40-47, in its thread: the rows are selected and counted
CleanupSelect ==
    /\ cleanup.pc = "idle"
    /\ LET found == {id \in TaskRows : Inactive(StatusOf(id))} IN
         cleanup' = [pc |-> "delete", finished_tasks |-> found, count |-> Cardinality(found)]
    /\ UNCHANGED << ledger, ever_canceled, journal, clients, calls, hubvars, stopvars, epgvars, fetch, sub_channels, records, dpc, batchvars >>

\* cleanup_tasks lines 48-51: each selected row is deleted by its id, and the
\* deletion is committed
CleanupCommit ==
    /\ cleanup.pc = "delete"
    /\ records' = [id \in DOMAIN records \ cleanup.finished_tasks |-> records[id]]
    /\ ledger' = IF LiveTask \in cleanup.finished_tasks THEN NoRow ELSE ledger
    /\ cleanup' = [cleanup EXCEPT !.pc = "done"]
    /\ UNCHANGED << ever_canceled, journal, clients, calls, hubvars, stopvars, epgvars, fetch, sub_channels, dpc, batchvars >>

\* _update_db lines 101-102 when the row loaded has been deleted meanwhile: the
\* UPDATE matches no row, commit raises, and update_task_status ends in its except
\* branch (lines 134-135) without a broadcast.
UpdGone(c) ==
    /\ calls[c].phase = "thread_commit"
    /\ ~ ledger.exists
    /\ calls' = [calls EXCEPT ![c] = [@ EXCEPT !.phase = "gave_up"]]
    /\ UNCHANGED << ledger, ever_canceled, journal, clients, hubvars, stopvars, sidevars, dpc, batchvars >>

\* ------------------------------------------------------ EPG request coalescing
\* One EPG URL. A future is absent (not created), pending, done with a result, or
\* cancelled; future f is created together with refresh task f.
Done(st) == st \in {"result", "cancelled"}
Created == {f \in DOMAIN futures : futures[f] # "absent"}
Refreshing == {f \in DOMAIN refreshes : refreshes[f] \notin {"absent", "ended"}}
Waiting(r) == requests[r].pc = "waiting"
\* the get_program calls of the scenario; each may create a future
RequestIds == 1 .. 3
NoRequest == [pc |-> "idle", fut |-> 0, ret |-> "none"]

\* get_program lines 113-115 after wait_for returned, and line 122
Answer(hit) == IF hit THEN "program" ELSE "default"

\* get_program lines 76-112 up to the wait: the cache fast path, then under
\* _locks_lock the registered future is taken, or a future is created and
\* registered and its refresh task is started.
GetProgram(r, refresh, fresh) ==
    /\ requests[r].pc = "idle"
    /\ IF ~ refresh /\ cache /\ fresh
       THEN /\ requests' = [requests EXCEPT ![r] = [pc |-> "returned", fut |-> 0, ret |-> "program"]]
            /\ UNCHANGED << pending_futures, futures, refreshes >>
       ELSE IF pending_futures # {}
       THEN /\ requests' = [requests EXCEPT ![r] =
                   [pc |-> "waiting", fut |-> CHOOSE f \in pending_futures : TRUE, ret |-> "none"]]
            /\ UNCHANGED << pending_futures, futures, refreshes >>
       ELSE LET f == Cardinality(Created) + 1 IN
            /\ futures' = [futures EXCEPT ![f] = "pending"]
            /\ pending_futures' = {f}
            /\ refreshes' = [refreshes EXCEPT ![f] = "fetch"]
            /\ requests' = [requests EXCEPT ![r] = [pc |-> "waiting", fut |-> f, ret |-> "none"]]
    /\ UNCHANGED << ledger, ever_canceled, journal, clients, calls, hubvars, stopvars, fetch, sub_channels, tablevars, cache, dpc, batchvars >>

\* wait_for returns because the future is done: with its result the answer is looked
\* up in the cache (lines 113-115, 122); a cancelled future raises CancelledError,
\* which `except Exception` does not catch.
Wake(r) ==
    /\ Waiting(r)
    /\ Done(futures[requests[r].fut])
    /\ requests' = [requests EXCEPT ![r] =
          [@ EXCEPT !.pc = "returned",
                    !.ret = IF futures[requests[r].fut] = "result"
                            THEN Answer(cache) ELSE "cancelled"]]
    /\ UNCHANGED << ledger, ever_canceled, journal, clients, calls, hubvars, stopvars, fetch, sub_channels, tablevars, pending_futures, futures, refreshes, cache, dpc, batchvars >>

\* wait_for line 112 after 10 seconds with the future not done: the future is
\* cancelled, TimeoutError is caught at line 116 and the default is answered.
WaitTimeout(r) ==
    /\ Waiting(r)
    /\ futures[requests[r].fut] = "pending"
    /\ futures' = [futures EXCEPT ![requests[r].fut] = "cancelled"]
    /\ requests' = [requests EXCEPT ![r] = [@ EXCEPT !.pc = "returned", !.ret = "default"]]
    /\ UNCHANGED << ledger, ever_canceled, journal, clients, calls, hubvars, stopvars, fetch, sub_channels, tablevars, pending_futures, refreshes, cache, dpc, batchvars >>

\* faulty variant: the finally block does not notify
M_NotifiedNever(regs, futs) == futs
\* _bg_refresh_at_url lines 150-153: the future registered for the URL gets its
\* result unless it is done already.
Notified(regs, futs) ==
    [f \in DOMAIN futs |-> IF f \in regs /\ ~ Done(futs[f]) THEN "result" ELSE futs[f]]

\* _bg_refresh_at_url lines 128-129: fetch_epg_cached returned; with a file the
\* parse goes to the executor, without one the finally block runs up to its sleep.
Downloaded(f, found) ==
    /\ refreshes[f] = "fetch"
    /\ IF found
       THEN refreshes' = [refreshes EXCEPT ![f] = "parse"] /\ UNCHANGED futures
       ELSE /\ refreshes' = [refreshes EXCEPT ![f] = "sleep"]
            /\ futures' = Notified(pending_futures, futures)
    /\ UNCHANGED << ledger, ever_canceled, journal, clients, calls, hubvars, stopvars, fetch, sub_channels, tablevars, pending_futures, cache, requests, dpc, batchvars >>

\* lines 131-147 and 148-156: the parse returned and the cache is filled, or it
\* raised; the finally block runs up to its sleep.
Parsed(f, ok) ==
    /\ refreshes[f] = "parse"
    /\ cache' = (cache \/ ok)
    /\ refreshes' = [refreshes EXCEPT ![f] = "sleep"]
    /\ futures' = Notified(pending_futures, futures)
    /\ UNCHANGED << ledger, ever_canceled, journal, clients, calls, hubvars, stopvars, fetch, sub_channels, tablevars, pending_futures, requests, dpc, batchvars >>

\* lines 156-159: after the sleep the URL's registration is removed and the task ends
Popped(f) ==
    /\ refreshes[f] = "sleep"
    /\ pending_futures' = {}
    /\ refreshes' = [refreshes EXCEPT ![f] = "ended"]
    /\ UNCHANGED << ledger, ever_canceled, journal, clients, calls, hubvars, stopvars, fetch, sub_channels, tablevars, futures, cache, requests, dpc, batchvars >>

\* ------------------------------------------------------ stop command
\* faulty variant: the stop command also resets the progress
M_StopFieldsResetProgress ==
    [status |-> Some("canceled"), progress |-> Some(0), message |-> Some(Msg("user_stop", 0))]
\* what stop_task assigns (lines 24-25)
StopFields ==
    [status |-> Some("canceled"), progress |-> None, message |-> Some(Msg("user_stop", 0))]

\* faulty variant: every existing task is stopped
M_StoppableAnyRow(row) == row.exists
\* stop_task line 23: the task exists and is pending or running
Stoppable(row) == row.exists /\ row.status \in {"pending", "running"}

\* stop_task lines 21-23: load the row; only a pending or running task is stopped.
StopRequest ==
    /\ LoopStep
    /\ stop_pc = "idle"
    /\ IF Stoppable(ledger)
       THEN /\ stop_pc' = "commit"
            /\ stop_snap' = Dirty(ledger, StopFields)
            /\ stop_result' = stop_result
       ELSE /\ stop_pc' = "idle"
            /\ stop_snap' = Clean
            /\ stop_result' = "error"
    /\ UNCHANGED << ledger, ever_canceled, journal, clients, calls, hubvars, sidevars, dpc, batchvars >>

\* stop_task lines 24-31: commit canceled, then call the Updater to broadcast.
StopCommit ==
    /\ stop_pc = "commit"
    /\ ledger' = Commit(ledger, stop_snap, StopFields)
    /\ calls' = [calls EXCEPT ![StopCaller] =
                    NewCall(Some("canceled"), None, Some(Msg("user_stop", 0)))]
    /\ stop_pc' = "await"
    /\ stop_snap' = Clean
    /\ ever_canceled' = (ever_canceled \/ ledger'.status = "canceled")
    /\ journal' = Record(journal, ledger')
    /\ UNCHANGED << clients, hubvars, stop_result, sidevars, dpc, batchvars >>

\* stop_task line 32
StopReturn ==
    /\ LoopStep
    /\ stop_pc = "await"
    /\ Finishing(StopCaller)
    /\ active_connections' = HubAfter(StopCaller)
    /\ calls' = [calls EXCEPT ![StopCaller] = NoCall]
    /\ stop_pc' = "idle"
    /\ stop_result' = "success"
    /\ UNCHANGED << ledger, ever_canceled, journal, clients, ws, last_seen, inbox, stop_snap, sidevars, dpc, batchvars >>

\* ------------------------------------------------------ batch runner
\* faulty variant: the share is rounded to the nearest integer
M_ProgressValRounded(fc, tot) == ProgressBase + (2 * fc * ProgressSpan + tot) \div (2 * tot)

\* progress_val = 60 + int((finished_count / total) * 38)
ProgressVal(fc, tot) == ProgressBase + (fc * ProgressSpan) \div tot

\* faulty variant: any increase is reported
M_ShouldReportAnyIncrease(p, last, fc, tot, aborted) == ~aborted /\ p > last
\* faulty variant: the flag is not consulted
M_ShouldReportIgnoresFlag(p, last, fc, tot, aborted) ==
    p > last /\ (p - last >= MinProgressStep \/ fc = tot)
\* the condition of line 209
ShouldReport(p, last, fc, tot, aborted) ==
    /\ ~aborted
    /\ p > last
    /\ (p - last >= MinProgressStep \/ fc = tot)

\* faulty variant: acquire never waits
M_CanAcquireAlways == TRUE
\* asyncio.Semaphore.acquire without waiting
CanAcquire == sem_value > 0 /\ waiters = << >>

\* faulty variant: no item consults the ledger
M_PollsNever(w) == FALSE
\* faulty variant: every item consults the ledger
M_PollsEveryItem(w) == TRUE
\* _worker line 190: the items that read the task's row once admitted
Polls(w) == Idx(w) % PollEvery = 0

\* faulty variant: the flag is not looked at again once the slot is held
M_FlagAtAdmissionIgnored == FALSE
\* _worker line 186: the check of the flag inside the semaphore
FlagAtAdmission == local_aborted

\* _worker lines 186-201, entered holding a slot; after is the semaphore's value
\* with that slot taken.
Enter(w, after) ==
    IF FlagAtAdmission
    THEN /\ results' = [results EXCEPT ![w] = "canceled"]
         /\ wpc' = [wpc EXCEPT ![w] = "done"]
         /\ sem_value' = after + 1
         /\ UNCHANGED << local_aborted, calls, probe_calls, journal >>
    ELSE IF Polls(w) /\ (~ledger.exists \/ ledger.status = "canceled")
    THEN /\ local_aborted' = TRUE
         /\ calls' = [calls EXCEPT ![WorkerCaller(w)] =
                         NewCall(Some("canceled"), None, Some(Msg("aborted", 0)))]
         /\ wpc' = [wpc EXCEPT ![w] = "abort_update"]
         /\ sem_value' = after
         /\ UNCHANGED << results, probe_calls, journal >>
    ELSE /\ wpc' = [wpc EXCEPT ![w] = "probing"]
         /\ probe_calls' = [probe_calls EXCEPT ![UrlOf(w)] = @ + 1]
         /\ sem_value' = after
         /\ journal' = RecordProbe(journal, ever_canceled)
         /\ UNCHANGED << local_aborted, calls, results >>

\* _worker, first stretch (lines 179-183): the check before queueing, then acquire.
WorkerStart(w) ==
    /\ LoopFree
    /\ dpc = "batch"
    /\ wpc[w] = "init"
    /\ \A v \in Workers : v < w => wpc[v] # "init"
    /\ IF local_aborted
       THEN /\ results' = [results EXCEPT ![w] = "canceled"]
            /\ wpc' = [wpc EXCEPT ![w] = "done"]
            /\ UNCHANGED << sem_value, waiters, local_aborted, calls, probe_calls, journal >>
       ELSE IF CanAcquire
       THEN Enter(w, sem_value - 1) /\ UNCHANGED waiters
       ELSE /\ waiters' = Append(waiters, w)
            /\ wpc' = [wpc EXCEPT ![w] = "waiting"]
            /\ UNCHANGED << sem_value, local_aborted, calls, probe_calls, results, journal >>
    /\ UNCHANGED << ledger, ever_canceled, clients, hubvars, stopvars, sidevars, dpc, channels, concurrency, driver, unique_channels,
                    finished_count, last_reported_p, batch_ret, check_status,
                    done_before_abort >>

\* _worker resumed by a release of the semaphore (first waiter first).
WorkerAdmit(w) ==
    /\ LoopStep
    /\ wpc[w] = "waiting"
    /\ waiters # << >> /\ Head(waiters) = w
    /\ sem_value > 0
    /\ waiters' = Tail(waiters)
    /\ Enter(w, sem_value - 1)
    /\ UNCHANGED << ledger, ever_canceled, clients, hubvars, stopvars, sidevars, dpc, channels, concurrency, driver, unique_channels,
                    finished_count, last_reported_p, batch_ret, check_status,
                    done_before_abort >>

\* check_stream_visual's verdict: the streams that are down fail, the others succeed
DeadUrls == {"u2"}
Probe(url) == IF url \in DeadUrls THEN "fail" ELSE "ok"

\* _worker lines 201-218: check_stream_visual returned; count, maybe report.
WorkerProbed(w) ==
    /\ LoopStep
    /\ wpc[w] = "probing"
    /\ finished_count' = finished_count + 1
    /\ results' = [results EXCEPT ![w] = Probe(UrlOf(w))]
    /\ done_before_abort' = IF local_aborted THEN done_before_abort
                            ELSE done_before_abort \cup {w}
    /\ LET p == ProgressVal(finished_count', total) IN
         IF ShouldReport(p, last_reported_p, finished_count', total, local_aborted)
         THEN /\ last_reported_p' = p
              /\ journal' = RecordReport(journal)
              /\ calls' = [calls EXCEPT ![WorkerCaller(w)] =
                    NewCall(None, Some(p), Some(Msg("progress", finished_count')))]
              /\ wpc' = [wpc EXCEPT ![w] = "report"]
              /\ UNCHANGED sem_value
         ELSE /\ wpc' = [wpc EXCEPT ![w] = "done"]
              /\ sem_value' = sem_value + 1
              /\ UNCHANGED << last_reported_p, calls, journal >>
    /\ UNCHANGED << ledger, ever_canceled, clients, hubvars, stopvars, sidevars, dpc, channels, concurrency, driver, unique_channels, waiters,
                    local_aborted, batch_ret, check_status, probe_calls >>

\* _worker: the awaited update_task_status of line 211 returned; return the result.
WorkerReported(w) ==
    /\ LoopStep
    /\ wpc[w] = "report"
    /\ Finishing(WorkerCaller(w))
    /\ active_connections' = HubAfter(WorkerCaller(w))
    /\ calls' = [calls EXCEPT ![WorkerCaller(w)] = NoCall]
    /\ wpc' = [wpc EXCEPT ![w] = "done"]
    /\ sem_value' = sem_value + 1
    /\ UNCHANGED << ledger, ever_canceled, journal, clients, ws, last_seen, inbox, stopvars, sidevars, dpc, channels, concurrency, driver, unique_channels, unique_channels, waiters,
                    finished_count, last_reported_p, local_aborted, results,
                    batch_ret, check_status, probe_calls, done_before_abort >>

\* _worker: the awaited update_task_status of line 197 returned; return canceled.
WorkerAborted(w) ==
    /\ LoopStep
    /\ wpc[w] = "abort_update"
    /\ Finishing(WorkerCaller(w))
    /\ active_connections' = HubAfter(WorkerCaller(w))
    /\ calls' = [calls EXCEPT ![WorkerCaller(w)] = NoCall]
    /\ results' = [results EXCEPT ![w] = "canceled"]
    /\ wpc' = [wpc EXCEPT ![w] = "done"]
    /\ sem_value' = sem_value + 1
    /\ UNCHANGED << ledger, ever_canceled, journal, clients, ws, last_seen, inbox, stopvars, sidevars, dpc, channels, concurrency, driver, unique_channels, unique_channels, waiters,
                    finished_count, last_reported_p, local_aborted,
                    batch_ret, check_status, probe_calls, done_before_abort >>

\* faulty variant: the item whose probe raised is returned as canceled
M_WorkerExceptAsCanceled(res, w) == [res EXCEPT ![w] = "canceled"]
\* _worker lines 219-221: the except branch returns a failed outcome with the
\* error text for item w
WorkerExcept(res, w) == [res EXCEPT ![w] = "error"]

\* _worker: the awaited check_stream_visual raised (line 202); the semaphore is
\* released on the way out, lines 204-218 are skipped.
WorkerRaised(w) ==
    /\ LoopStep
    /\ wpc[w] = "probing"
    /\ results' = WorkerExcept(results, w)
    /\ wpc' = [wpc EXCEPT ![w] = "done"]
    /\ sem_value' = sem_value + 1
    /\ UNCHANGED << ledger, ever_canceled, journal, clients, calls, hubvars, stopvars, sidevars, dpc, channels, concurrency, driver, unique_channels, waiters,
                    finished_count, last_reported_p, local_aborted,
                    batch_ret, check_status, probe_calls, done_before_abort >>

\* faulty variant: only the channels found alive are written back
M_WriteBackAliveOnly(cs, res) ==
    [ch \in DOMAIN cs |->
        IF \E w \in Workers : unique_channels[w] = ch /\ res[w] = "ok"
        THEN "ok"
        ELSE cs[ch]]
\* run_batch_check lines 231-245: the rows written back from the results
WriteBack(cs, res) ==
    [ch \in DOMAIN cs |->
        IF \E w \in Workers : unique_channels[w] = ch /\ res[w] # "canceled"
        THEN res[CHOOSE w \in Workers : unique_channels[w] = ch]
        ELSE cs[ch]]

\* ------------------------------------------------------ job drivers
\* check_channels_task, run_output_visual_check_v2 (entered from refresh_output) and
\* run_output_visual_check: the three drivers that run a batch under a task.
DriverKinds ==
    {"check_channels_task", "run_output_visual_check_v2", "run_output_visual_check"}

\* The update the driver awaits before it loads the channels: stream_checker.py
\* line 19, outputs.py line 334, and refresh_output's line 237 ahead of line 239.
StartCall(d) ==
    IF d = "check_channels_task"
    THEN NewCall(Some("running"), Some(0), Some(Msg("prepare", 0)))
    ELSE IF d = "run_output_visual_check"
    THEN NewCall(Some("pending"), Some(0), Some(Msg("queued", 0)))
    ELSE NewCall(None, Some(ProgressBase), Some(Msg("prepare", 0)))

\* the driver tests run_batch_check's result for False (stream_checker.py line 35,
\* outputs.py line 285; outputs.py line 360 drops the result)
HonoursCanceledReturn(d) == d # "run_output_visual_check"
\* faulty variant: no driver re-reads the task before its final success
M_FinalGuardNowhere(d) == FALSE
\* the driver re-reads the task before its final success (outputs.py lines 297-301)
FinalGuard(d) == d = "run_output_visual_check_v2"
\* the driver's except branch reports failure (stream_checker.py line 44, outputs.py
\* line 307; outputs.py lines 373-374 only print)
ReportsFailure(d) == d # "run_output_visual_check"

DriverStart ==
    /\ LoopStep
    /\ dpc = "start"
    /\ calls' = [calls EXCEPT ![DriverCaller] = StartCall(driver)]
    /\ dpc' = "await_running"
    /\ UNCHANGED << ledger, ever_canceled, journal, clients, hubvars, stopvars, sidevars, batchvars >>

\* lines 25-35 and run_batch_check lines 154-173, 224-225: load the channels,
\* dedup, build the semaphore, gather the workers.
DriverLoad ==
    /\ LoopStep
    /\ dpc = "await_running"
    /\ Finishing(DriverCaller)
    /\ active_connections' = HubAfter(DriverCaller)
    /\ IF channels = << >>
       THEN /\ calls' = [calls EXCEPT ![DriverCaller] =
                  NewCall(Some("success"), Some(FinalProgress), Some(Msg("no_channels", 0)))]
            /\ dpc' = "await_final"
            /\ UNCHANGED << unique_channels, wpc, results, sem_value >>
       ELSE /\ calls' = [calls EXCEPT ![DriverCaller] = NoCall]
            /\ dpc' = "batch"
            /\ unique_channels' = UniqueChannels(channels)
            /\ wpc' = [w \in 1 .. Len(unique_channels') |-> "init"]
            /\ results' = [w \in 1 .. Len(unique_channels') |-> "none"]
            /\ sem_value' = concurrency
    /\ UNCHANGED << ledger, ever_canceled, journal, clients, ws, last_seen, inbox, stopvars, sidevars, channels,
                    concurrency, driver, waiters, finished_count, last_reported_p, local_aborted,
                    batch_ret, check_status, probe_calls, done_before_abort >>

\* the driver's except branch: the channel query raises.
DriverLoadFails ==
    /\ LoopStep
    /\ dpc = "await_running"
    /\ Finishing(DriverCaller)
    /\ active_connections' = HubAfter(DriverCaller)
    /\ IF ReportsFailure(driver)
       THEN /\ calls' = [calls EXCEPT ![DriverCaller] =
                            NewCall(Some("failure"), None, Some(Msg("error", 0)))]
            /\ dpc' = "await_final"
       ELSE /\ calls' = [calls EXCEPT ![DriverCaller] = NoCall]
            /\ dpc' = "done"
    /\ UNCHANGED << ledger, ever_canceled, journal, clients, ws, last_seen, inbox, stopvars, sidevars, batchvars >>

\* The driver passes a task id to run_batch_check; auto_update_task (main.py line
\* 232) passes none, so task_id is None: every session.get(TaskRecord, task_id)
\* finds no row, and the driver itself calls update_task_status nowhere.
HasTask(d) == d # "auto_update_task"

\* auto_update_task lines 214-232: the matched channels are loaded and, if there
\* are any, run_batch_check is awaited (lines 154-173, 224-225).
AutoLoad ==
    /\ LoopStep
    /\ dpc = "start"
    /\ ~ HasTask(driver)
    /\ IF channels = << >>
       THEN /\ dpc' = "done"
            /\ UNCHANGED << unique_channels, wpc, results, sem_value >>
       ELSE /\ dpc' = "batch"
            /\ unique_channels' = UniqueChannels(channels)
            /\ wpc' = [w \in 1 .. Len(unique_channels') |-> "init"]
            /\ results' = [w \in 1 .. Len(unique_channels') |-> "none"]
            /\ sem_value' = concurrency
    /\ UNCHANGED << ledger, ever_canceled, journal, clients, calls, hubvars, stopvars, sidevars, channels,
                    concurrency, driver, waiters, finished_count, last_reported_p, local_aborted,
                    batch_ret, check_status, probe_calls, done_before_abort >>

\* the driver's final update_task_status(status="success", progress=100)
SuccessCall == NewCall(Some("success"), Some(FinalProgress), Some(Msg("finished", 0)))

\* run_batch_check lines 225-246 and what the driver does with the result.
DriverGathered ==
    /\ LoopStep
    /\ dpc = "batch"
    /\ \A w \in Workers : wpc[w] = "done"
    /\ IF local_aborted
       THEN /\ batch_ret' = "False"
            /\ UNCHANGED check_status
            /\ IF HonoursCanceledReturn(driver) \/ ~ HasTask(driver)
               THEN dpc' = "done" /\ UNCHANGED calls
               ELSE /\ calls' = [calls EXCEPT ![DriverCaller] = SuccessCall]
                    /\ dpc' = "await_final"
       ELSE /\ check_status' = WriteBack(check_status, results)
            /\ batch_ret' = "True"
            /\ IF (FinalGuard(driver) /\ ledger.exists /\ ledger.status = "canceled")
                  \/ ~ HasTask(driver)
               THEN dpc' = "done" /\ UNCHANGED calls
               ELSE /\ calls' = [calls EXCEPT ![DriverCaller] = SuccessCall]
                    /\ dpc' = "await_final"
    /\ UNCHANGED << ledger, ever_canceled, journal, clients, hubvars, stopvars, sidevars, channels, concurrency, driver, unique_channels, wpc, sem_value,
                    waiters, finished_count, last_reported_p, local_aborted, results,
                    probe_calls, done_before_abort >>

\* run_batch_check lines 233-245 raise (storage unavailable); the except branch.
DriverWriteBackFails ==
    /\ LoopStep
    /\ dpc = "batch"
    /\ \A w \in Workers : wpc[w] = "done"
    /\ ~local_aborted
    /\ batch_ret' = "raised"
    /\ IF ReportsFailure(driver)
       THEN /\ calls' = [calls EXCEPT ![DriverCaller] =
                            NewCall(Some("failure"), None, Some(Msg("error", 0)))]
            /\ dpc' = "await_final"
       ELSE dpc' = "done" /\ UNCHANGED calls
    /\ UNCHANGED << ledger, ever_canceled, journal, clients, hubvars, stopvars, sidevars, channels, concurrency, driver, unique_channels, wpc, sem_value,
                    waiters, finished_count, last_reported_p, local_aborted, results,
                    check_status, probe_calls, done_before_abort >>

\* the last update_task_status of the driver returned
DriverFinish ==
    /\ LoopStep
    /\ dpc = "await_final"
    /\ Finishing(DriverCaller)
    /\ active_connections' = HubAfter(DriverCaller)
    /\ calls' = [calls EXCEPT ![DriverCaller] = NoCall]
    /\ dpc' = "done"
    /\ UNCHANGED << ledger, ever_canceled, journal, clients, ws, last_seen, inbox, stopvars, sidevars, batchvars >>

\* ------------------------------------------------------ other callers
\* The argument shapes update_task_status is called with across the repository.
CallShapes ==
    { [status |-> Some(st), progress |-> Some(0), message |-> Some(Msg("start", 0))] :
          st \in {"pending", "running"} }
    \cup { [status |-> Some("success"), progress |-> Some(FinalProgress),
            message |-> Some(Msg("finished", 0))] }
    \cup { [status |-> Some(st), progress |-> None, message |-> Some(Msg("ended", 0))] :
             st \in {"failure", "canceled"} }
    \cup { [status |-> None, progress |-> Some(ProgressBase), message |-> Some(Msg("progress", 0))] }

\* update_task_status(task_id, status, progress, message) entered by a caller
ClientCall(k, a) ==
    /\ LoopStep
    /\ clients[k] = "idle"
    /\ clients' = [clients EXCEPT ![k] = "called"]
    /\ calls' = [calls EXCEPT ![ClientCaller(k)] = NewCall(a.status, a.progress, a.message)]
    /\ UNCHANGED << ledger, ever_canceled, journal, hubvars, stopvars, sidevars, dpc, batchvars >>

\* ... and returned to the caller
ClientReturn(k) ==
    /\ LoopStep
    /\ clients[k] = "called"
    /\ Finishing(ClientCaller(k))
    /\ active_connections' = HubAfter(ClientCaller(k))
    /\ calls' = [calls EXCEPT ![ClientCaller(k)] = NoCall]
    /\ clients' = [clients EXCEPT ![k] = "done"]
    /\ UNCHANGED << ledger, ever_canceled, journal, ws, last_seen, inbox, stopvars, sidevars, dpc, batchvars >>

\* The endpoint that starts a job commits the task's row (pending, progress 0); the
\* job's first update_task_status may run before that commit.
CreateRow ==
    /\ ~ledger.exists
    /\ ledger' = Row("pending", 0, Msg("created", 0))
    /\ journal' = Record(journal, ledger')
    /\ UNCHANGED << ever_canceled, clients, calls, hubvars, stopvars, sidevars, dpc, batchvars >>

\* ------------------------------------------------------ specification
UrlNames == << "u1", "u2", "u3", "u4", "u5", "u6", "u7", "u8", "u9", "u10" >>
UrlRank(u) == CHOOSE k \in 1 .. Len(UrlNames) : UrlNames[k] = u
Urls == { UrlNames[k] : k \in 1 .. MaxChannels }
\* URLs are interchangeable: take the lists whose URLs first appear in order
FirstUseOrdered(chs) ==
    \A i \in 1 .. Len(chs) :
        UrlRank(chs[i]) = 1 \/ \E j \in 1 .. (i - 1) : UrlRank(chs[j]) = UrlRank(chs[i]) - 1

ChannelLists ==
    { chs \in UNION { [1 .. n -> Urls] : n \in 0 .. MaxChannels } : FirstUseOrdered(chs) }

\* The row of the task when driver d starts: created pending by the endpoint that
\* queues check_channels_task and by run_output_visual_check itself, running at
\* progress 10 by refresh_output, which hands its task to run_output_visual_check_v2.
StartRow(d) ==
    IF d = "run_output_visual_check_v2"
    THEN Row("running", 10, Msg("created", 0))
    ELSE IF HasTask(d) THEN Row("pending", 0, Msg("created", 0))
    ELSE NoRow

\* The state when driver d is started on its task: chs the channels it will
\* load, limit the concurrency, obs the websockets of the run, conn those connected.
InitCore(d, chs, limit, obs, conn) ==
    /\ ledger = StartRow(d)
    /\ ever_canceled = FALSE
    /\ clients = << >>
    /\ calls = [c \in {DriverCaller, StopCaller}
                       \cup {WorkerCaller(w) : w \in 1 .. Len(chs)} |-> NoCall]
    /\ active_connections = conn
    /\ ws = [o \in obs |-> IF \E i \in 1 .. Len(conn) : conn[i] = o THEN "open" ELSE "new"]
    /\ last_seen = [o \in obs |-> None]
    /\ stop_pc = "idle" /\ stop_snap = Clean /\ stop_result = "none"
    /\ SideIdle
    /\ dpc = "start"
    /\ channels = chs
    /\ concurrency = limit
    /\ driver = d
    /\ unique_channels = << >>
    /\ wpc = << >>
    /\ sem_value = 0
    /\ waiters = << >>
    /\ finished_count = 0
    /\ last_reported_p = 0 - 1
    /\ local_aborted = FALSE
    /\ results = << >>
    /\ batch_ret = "none"
    /\ check_status = [ch \in 1 .. Len(chs) |-> "none"]
    /\ probe_calls = [u \in {chs[i] : i \in 1 .. Len(chs)} |-> 0]
    /\ done_before_abort = {}

\* the same with no record kept of what the observers receive and no journal
InitWith(d, chs, limit, obs, conn) ==
    InitCore(d, chs, limit, obs, conn) /\ inbox = << >> /\ journal = NoJournal

\* The whole system: one driver run over every bounded channel list, the stop
\* command at any moment, one observer that connects at any moment.
Init == \E chs \in ChannelLists : InitWith("check_channels_task", chs, 2, {"o1"}, << >>)

UpdaterStep == \E c \in Callers : UpdRead(c) \/ UpdCommit(c) \/ UpdSend(c)
HubStep == \E o \in Observers : Connect(o)
HubFailStep == \E o \in Observers : Break(o) \/ Disconnect(o)
StopStep == StopRequest \/ StopCommit \/ StopReturn
WorkerStep ==
    \E w \in Workers :
        \/ WorkerStart(w)
        \/ WorkerAdmit(w)
        \/ WorkerProbed(w)
        \/ WorkerReported(w)
        \/ WorkerAborted(w)
DriverStep ==
    DriverStart \/ DriverLoad \/ DriverLoadFails \/ DriverGathered
    \/ DriverWriteBackFails \/ DriverFinish
ClientStep ==
    \E k \in DOMAIN clients : ClientReturn(k) \/ \E a \in CallShapes : ClientCall(k, a)

Next == UpdaterStep \/ HubStep \/ StopStep \/ WorkerStep \/ DriverStep

Spec == Init /\ [][Next]_vars

\* The batch runner with nobody listening: every bounded channel list, limits 1 and 2.
ThreadStep == \E c \in Callers : UpdRead(c) \/ UpdCommit(c)
InitBatch == \E chs \in ChannelLists, limit \in {1, 2} : InitWith("check_channels_task", chs, limit, {}, << >>)
NextBatch == ThreadStep \/ StopStep \/ WorkerStep \/ DriverStep
SpecBatch == InitBatch /\ [][NextBatch]_vars

\* The three job drivers with nobody listening: every bounded channel list, limit 2,
\* the stop command at any moment.
InitDrivers ==
    \E d \in DriverKinds, chs \in ChannelLists : InitWith(d, chs, 2, {}, << >>)
SpecDrivers == InitDrivers /\ [][NextBatch]_vars

\* The Status Updater as an operation: a row in any status, callers that enter
\* update_task_status with any of the argument shapes, the stop command, an observer.
InitUpdaterWith(keep, starts) ==
    \E st \in Statuses, p \in starts :
        /\ ledger = Row(st, p, Msg("created", 0))
        /\ ever_canceled = (st = "canceled")
        /\ journal = IF keep THEN JournalFrom(ledger) ELSE NoJournal
        /\ clients = [k \in 1 .. MaxClients |-> "idle"]
        /\ calls = [c \in {StopCaller} \cup {ClientCaller(k) : k \in 1 .. MaxClients} |-> NoCall]
        /\ active_connections = << >>
        /\ ws = [o \in {"o1"} |-> "new"]
        /\ last_seen = [o \in {"o1"} |-> None]
        /\ inbox = [o \in {"o1"} |-> << >>]
        /\ stop_pc = "idle" /\ stop_snap = Clean /\ stop_result = "none"
        /\ SideIdle
        /\ dpc = "done"
        /\ channels = << >> /\ concurrency = 1 /\ driver = "check_channels_task"
        /\ unique_channels = << >>
        /\ wpc = << >> /\ sem_value = 0 /\ waiters = << >>
        /\ finished_count = 0 /\ last_reported_p = 0 - 1 /\ local_aborted = FALSE
        /\ results = << >> /\ batch_ret = "none" /\ check_status = << >>
        /\ probe_calls = << >>
        /\ done_before_abort = {}
InitUpdater == InitUpdaterWith(FALSE, {0, ProgressBase})
NextUpdater == UpdaterStep \/ HubStep \/ StopStep \/ ClientStep
SpecUpdater == InitUpdater /\ [][NextUpdater]_vars

\* The same, with the journal of the row's committed states kept.
InitPublish == InitUpdaterWith(TRUE, {0})
SpecPublish == InitPublish /\ [][NextUpdater]_vars

\* Scenario D: two callers enter update_task_status for a task whose row is not
\* committed yet; the row is committed at any moment or never; an observer listens.
InitMissing ==
    /\ ledger = NoRow
    /\ ever_canceled = FALSE
    /\ journal = NoJournal
    /\ clients = [k \in 1 .. 2 |-> "idle"]
    /\ calls = [c \in {StopCaller} \cup {ClientCaller(k) : k \in 1 .. 2} |-> NoCall]
    /\ active_connections = << "o1" >>
    /\ ws = [o \in {"o1"} |-> "open"]
    /\ last_seen = [o \in {"o1"} |-> None]
    /\ inbox = [o \in {"o1"} |-> << >>]
    /\ stop_pc = "idle" /\ stop_snap = Clean /\ stop_result = "none"
    /\ SideIdle
    /\ dpc = "done"
    /\ channels = << >> /\ concurrency = 1 /\ driver = "check_channels_task"
    /\ unique_channels = << >>
    /\ wpc = << >> /\ sem_value = 0 /\ waiters = << >>
    /\ finished_count = 0 /\ last_reported_p = 0 - 1 /\ local_aborted = FALSE
    /\ results = << >> /\ batch_ret = "none" /\ check_status = << >>
    /\ probe_calls = << >>
    /\ done_before_abort = {}
NextMissing == UpdaterStep \/ ClientStep \/ CreateRow
SpecMissing == InitMissing /\ [][NextMissing]_vars

\* The fields of a call: each of status, progress and message unset, empty or zero,
\* or set, applied to a row in any status by one caller of the updater at a time.
FrameShapes ==
    [status : {None, Some(Blank)} \cup {Some(st) : st \in Statuses},
     progress : {None, Some(0), Some(ProgressBase)},
     message : {None, Some(BlankMsg), Some(Msg("note", 0))}]
FrameCallStep ==
    \E k \in DOMAIN clients : ClientReturn(k) \/ \E a \in FrameShapes : ClientCall(k, a)
InitFrame ==
    \E st \in Statuses, p \in {0, FinalProgress} :
        /\ ledger = Row(st, p, Msg("created", 0))
        /\ ever_canceled = (st = "canceled")
        /\ journal = NoJournal
        /\ clients = [k \in 1 .. 1 |-> "idle"]
        /\ calls = [c \in {StopCaller} \cup {ClientCaller(k) : k \in 1 .. 1} |-> NoCall]
        /\ active_connections = << >>
        /\ ws = << >> /\ last_seen = << >> /\ inbox = << >>
        /\ stop_pc = "idle" /\ stop_snap = Clean /\ stop_result = "none"
        /\ SideIdle
        /\ dpc = "done"
        /\ channels = << >> /\ concurrency = 1 /\ driver = "check_channels_task"
        /\ unique_channels = << >>
        /\ wpc = << >> /\ sem_value = 0 /\ waiters = << >>
        /\ finished_count = 0 /\ last_reported_p = 0 - 1 /\ local_aborted = FALSE
        /\ results = << >> /\ batch_ret = "none" /\ check_status = << >>
        /\ probe_calls = << >>
        /\ done_before_abort = {}
NextFrame == ThreadStep \/ FrameCallStep
SpecFrame == InitFrame /\ [][NextFrame]_vars

\* The stop command: a task with no row or a row in any status, the stop command
\* issued at any moment and any number of times, one caller of the Updater, an observer.
InitStop ==
    \E row \in {NoRow} \cup {Row(st, 0, Msg("created", 0)) : st \in Statuses} :
        /\ ledger = row
        /\ ever_canceled = (row.status = "canceled")
        /\ journal = NoJournal
        /\ clients = [k \in 1 .. 1 |-> "idle"]
        /\ calls = [c \in {StopCaller} \cup {ClientCaller(k) : k \in 1 .. 1} |-> NoCall]
        /\ active_connections = << "o1" >>
        /\ ws = [o \in {"o1"} |-> "open"]
        /\ last_seen = [o \in {"o1"} |-> None]
        /\ inbox = [o \in {"o1"} |-> << >>]
        /\ stop_pc = "idle" /\ stop_snap = Clean /\ stop_result = "none"
        /\ SideIdle
        /\ dpc = "done"
        /\ channels = << >> /\ concurrency = 1 /\ driver = "check_channels_task"
        /\ unique_channels = << >>
        /\ wpc = << >> /\ sem_value = 0 /\ waiters = << >>
        /\ finished_count = 0 /\ last_reported_p = 0 - 1 /\ local_aborted = FALSE
        /\ results = << >> /\ batch_ret = "none" /\ check_status = << >>
        /\ probe_calls = << >>
        /\ done_before_abort = {}
NextStop == UpdaterStep \/ ClientStep \/ CreateRow \/ StopStep
SpecStop == InitStop /\ [][NextStop]_vars

\* The Notification Hub: two callers of the Updater on a running task, observers
\* o1 and o2 connected and o3 not yet; peers go away and their handlers disconnect
\* them at any moment.
HubFounders == << "o1", "o2" >>
InitHubWith(n, j) ==
    /\ ledger = Row("running", 0, Msg("created", 0))
    /\ ever_canceled = FALSE
    /\ journal = j
    /\ clients = [k \in 1 .. n |-> "idle"]
    /\ calls = [c \in {StopCaller} \cup {ClientCaller(k) : k \in 1 .. n} |-> NoCall]
    /\ active_connections = HubFounders
    /\ ws = [o \in {"o1", "o2", "o3"} |->
                IF \E i \in 1 .. Len(HubFounders) : HubFounders[i] = o THEN "open" ELSE "new"]
    /\ last_seen = [o \in {"o1", "o2", "o3"} |-> None]
    /\ inbox = [o \in {"o1", "o2", "o3"} |-> << >>]
    /\ stop_pc = "idle" /\ stop_snap = Clean /\ stop_result = "none"
    /\ SideIdle
    /\ dpc = "done"
    /\ channels = << >> /\ concurrency = 1 /\ driver = "check_channels_task"
    /\ unique_channels = << >>
    /\ wpc = << >> /\ sem_value = 0 /\ waiters = << >>
    /\ finished_count = 0 /\ last_reported_p = 0 - 1 /\ local_aborted = FALSE
    /\ results = << >> /\ batch_ret = "none" /\ check_status = << >>
    /\ probe_calls = << >>
    /\ done_before_abort = {}
InitHub == InitHubWith(2, NoJournal)
\* the callers report progress, as the batch workers do
ProgressCalls == {a \in CallShapes : a.status = None}
ProgressCallStep ==
    \E k \in DOMAIN clients : ClientReturn(k) \/ \E a \in ProgressCalls : ClientCall(k, a)
NextHub == UpdaterStep \/ ProgressCallStep \/ HubStep \/ HubFailStep
SpecHub == InitHub /\ [][NextHub]_vars

\* The observer set under its operations: two callers of the Updater, observers o1
\* and o2 connected and o3 not yet; connect is called again for a connected
\* websocket, handlers leave by either except branch, peers go away.
InitObservers == InitHubWith(2, JournalFrom(Row("running", 0, Msg("created", 0))))
ObserverStep == \E o \in Observers : ConnectAgain(o) \/ Detach(o) \/ Closed(o)
NextObservers == UpdaterStep \/ ProgressCallStep \/ HubStep \/ HubFailStep \/ ObserverStep
SpecObservers == InitObservers /\ [][NextObservers]_vars

\* A slow observer: a batch of three items with limit 1 under a task, observers o1 and
\* o2 connected, either of which may stop reading. The event loop and the thread
\* pool run whatever is ready.
InitSlow == InitWith("check_channels_task", << "u1", "u2", "u3" >>, 1, {"o1", "o2"}, << "o1", "o2" >>)
StallStep == \E o \in Observers : Stall(o)
DriverRunStep == DriverStart \/ DriverLoad \/ DriverGathered \/ DriverFinish
NextSlow == UpdaterStep \/ WorkerStep \/ DriverRunStep \/ StallStep
SpecSlow ==
    /\ InitSlow /\ [][NextSlow]_vars
    /\ WF_vars(UpdaterStep) /\ WF_vars(WorkerStep) /\ WF_vars(DriverRunStep)

\* The batch runner when probes may raise: every bounded channel list, limits 1 and
\* 2, the stop command at any moment, storage always available.
ProbeRaiseStep == \E w \in Workers : WorkerRaised(w)
NextIsolation == ThreadStep \/ StopStep \/ WorkerStep \/ ProbeRaiseStep \/ DriverRunStep
SpecIsolation == InitBatch /\ [][NextIsolation]_vars

\* The batch runner under the stop command, to its end: every bounded channel list,
\* limits 1 and 2, nothing raises. The event loop runs every coroutine that can go
\* on and the threads of the updater end; the stop command may never come.
NextCancel == ThreadStep \/ StopStep \/ WorkerStep \/ DriverRunStep
SpecCancel ==
    /\ InitBatch /\ [][NextCancel]_vars
    /\ WF_vars(ThreadStep) /\ WF_vars(WorkerStep) /\ WF_vars(DriverRunStep)

\* Each job driver to its end with one healthy observer connected throughout: no
\* stop command; the channel query or the write-back may raise. The event loop runs
\* every coroutine that can go on, and the worker threads end.
InitSurface ==
    \E d \in DriverKinds, chs \in ChannelLists :
        /\ InitCore(d, chs, 2, {"o1"}, << "o1" >>)
        /\ inbox = [o \in {"o1"} |-> << >>]
        /\ journal = NoJournal
NextSurface == UpdaterStep \/ WorkerStep \/ DriverStep
SpecSurface ==
    /\ InitSurface /\ [][NextSurface]_vars
    /\ WF_vars(UpdaterStep) /\ WF_vars(WorkerStep) /\ WF_vars(DriverStep)

\* The three job drivers to the end of their batch: every bounded channel list,
\* limit 2, the stop command at any moment, nothing raises.
SpecComplete == InitDrivers /\ [][NextCancel]_vars

\* The batch runner under the stop command with the journal kept: every bounded
\* channel list, limits 1 and 2.
InitPrompt ==
    \E chs \in ChannelLists, limit \in {1, 2} :
        /\ InitCore("check_channels_task", chs, limit, {}, << >>)
        /\ inbox = << >>
        /\ journal = JournalFrom(ledger)
SpecPrompt == InitPrompt /\ [][NextCancel]_vars

\* A batch long enough for an item to be waiting when a later poll sets the flag:
\* five distinct items, limits 1 and 2, the stop command at any moment.
InitFlag ==
    \E limit \in {1, 2} :
        InitWith("check_channels_task", SubSeq(UrlNames, 1, 5), limit, {}, << >>)
SpecFlag == InitFlag /\ [][NextCancel]_vars

\* Scenario A: 10 distinct items, limit 3, no stop command, nothing raises.
InitA == InitWith("check_channels_task", SubSeq(UrlNames, 1, 10), 3, {}, << >>)
NextA == ThreadStep \/ WorkerStep \/ DriverStart \/ DriverLoad \/ DriverGathered \/ DriverFinish
SpecA == InitA /\ [][NextA]_vars

\* Long batches, to the end: n distinct items for every n up to LongBatch, one at a
\* time, no stop command, nothing raises, the journal kept.
LongBatch == 45
ManyUrls(n) == [i \in 1 .. n |-> "u" \o ToString(i)]
InitProgress ==
    \E n \in 1 .. LongBatch :
        /\ InitCore("check_channels_task", ManyUrls(n), 1, {}, << >>)
        /\ inbox = << >>
        /\ journal = JournalFrom(ledger)
SpecProgress == InitProgress /\ [][NextA]_vars

\* Batches of every size up to LongBatch under each of the three drivers, one item
\* at a time, to the end.
InitScale ==
    \E n \in 1 .. LongBatch, d \in DriverKinds :
        InitWith(d, ManyUrls(n), 1, {}, << >>)
SpecScale == InitScale /\ [][NextA]_vars

\* A subscription sync under the stop command: a subscription with two channels and
\* one or two sources, a pending task, the stop command at any moment.
InitFetch ==
    \E n \in 1 .. 2 :
        /\ ledger = Row("pending", 0, Msg("created", 0))
        /\ ever_canceled = FALSE
        /\ journal = NoJournal
        /\ clients = << >>
        /\ calls = [c \in {DriverCaller, StopCaller} |-> NoCall]
        /\ active_connections = << >>
        /\ ws = << >> /\ last_seen = << >> /\ inbox = << >>
        /\ stop_pc = "idle" /\ stop_snap = Clean /\ stop_result = "none"
        /\ fetch = [NoFetch EXCEPT !.pc = "start", !.total_urls = n]
        /\ sub_channels = OldChannels
        /\ records = << >> /\ cleanup = NoCleanup
        /\ EpgIdle
        /\ dpc = "done"
        /\ channels = << >> /\ concurrency = 1 /\ driver = "check_channels_task"
        /\ unique_channels = << >>
        /\ wpc = << >> /\ sem_value = 0 /\ waiters = << >>
        /\ finished_count = 0 /\ last_reported_p = 0 - 1 /\ local_aborted = FALSE
        /\ results = << >> /\ batch_ret = "none" /\ check_status = << >>
        /\ probe_calls = << >>
        /\ done_before_abort = {}
FetchStep ==
    FetchStart \/ FetchDeleteOld \/ FetchRequest \/ FetchResponse \/ FetchCanceled \/ FetchReturn
NextFetch == ThreadStep \/ StopStep \/ FetchStep
SpecFetch == InitFetch /\ [][NextFetch]_vars

\* cleanup_tasks over a table of three tasks: the task under study with a row in any
\* status and two callers of the Updater, two other tasks in any status, with or
\* without a row.
InitCleanup ==
    \E st \in Statuses, ids \in SUBSET OtherTasks :
      \E others \in [ids -> Statuses] :
        /\ ledger = Row(st, 0, Msg("created", 0))
        /\ ever_canceled = (st = "canceled")
        /\ journal = NoJournal
        /\ clients = [k \in 1 .. 2 |-> "idle"]
        /\ calls = [c \in {ClientCaller(k) : k \in 1 .. 2} |-> NoCall]
        /\ active_connections = << >>
        /\ ws = << >> /\ last_seen = << >> /\ inbox = << >>
        /\ stop_pc = "idle" /\ stop_snap = Clean /\ stop_result = "none"
        /\ fetch = NoFetch /\ sub_channels = {}
        /\ records = others /\ cleanup = NoCleanup
        /\ EpgIdle
        /\ dpc = "done"
        /\ channels = << >> /\ concurrency = 1 /\ driver = "check_channels_task"
        /\ unique_channels = << >>
        /\ wpc = << >> /\ sem_value = 0 /\ waiters = << >>
        /\ finished_count = 0 /\ last_reported_p = 0 - 1 /\ local_aborted = FALSE
        /\ results = << >> /\ batch_ret = "none" /\ check_status = << >>
        /\ probe_calls = << >>
        /\ done_before_abort = {}
CleanupStep == CleanupSelect \/ CleanupCommit
GoneStep == \E c \in Callers : UpdGone(c)
NextCleanup == ThreadStep \/ GoneStep \/ ClientStep \/ CleanupStep
SpecCleanup == InitCleanup /\ [][NextCleanup]_vars

\* get_program for one EPG URL: three requests arriving at any moment, with or
\* without refresh, the cache filled or not at the start; the download and the parse
\* succeed or fail; a refresh task that can run does run, and a request whose
\* future is done is resumed. No task, no batch.
InitEpg ==
    \E filled \in BOOLEAN :
        /\ ledger = NoRow
        /\ ever_canceled = FALSE
        /\ journal = NoJournal
        /\ clients = << >>
        /\ calls = << >>
        /\ active_connections = << >>
        /\ ws = << >> /\ last_seen = << >> /\ inbox = << >>
        /\ stop_pc = "idle" /\ stop_snap = Clean /\ stop_result = "none"
        /\ fetch = NoFetch /\ sub_channels = {}
        /\ records = << >> /\ cleanup = NoCleanup
        /\ pending_futures = {}
        /\ futures = [f \in RequestIds |-> "absent"]
        /\ refreshes = [f \in RequestIds |-> "absent"]
        /\ cache = filled
        /\ requests = [r \in RequestIds |-> NoRequest]
        /\ dpc = "done"
        /\ channels = << >> /\ concurrency = 1 /\ driver = "check_channels_task"
        /\ unique_channels = << >>
        /\ wpc = << >> /\ sem_value = 0 /\ waiters = << >>
        /\ finished_count = 0 /\ last_reported_p = 0 - 1 /\ local_aborted = FALSE
        /\ results = << >> /\ batch_ret = "none" /\ check_status = << >>
        /\ probe_calls = << >>
        /\ done_before_abort = {}
RequestStep == \E r \in DOMAIN requests, refresh \in BOOLEAN, fresh \in BOOLEAN : GetProgram(r, refresh, fresh)
WakeStep == \E r \in DOMAIN requests : Wake(r)
TimeoutStep == \E r \in DOMAIN requests : WaitTimeout(r)
RefreshStep ==
    \E f \in DOMAIN refreshes : (\E b \in BOOLEAN : Downloaded(f, b) \/ Parsed(f, b)) \/ Popped(f)
NextEpg == RequestStep \/ WakeStep \/ TimeoutStep \/ RefreshStep
SpecEpg ==
    /\ InitEpg /\ [][NextEpg]_vars
    /\ WF_vars(RefreshStep) /\ WF_vars(WakeStep)

\* The scheduled run: auto_update_task over every bounded channel list, limits 1
\* and 2, no task, no stop command, nothing raises.
InitAuto ==
    \E chs \in ChannelLists, limit \in {1, 2} :
        InitWith("auto_update_task", chs, limit, {}, << >>)
NextAuto == ThreadStep \/ WorkerStep \/ AutoLoad \/ DriverGathered
SpecAuto == InitAuto /\ [][NextAuto]_vars

\* Scenario B: as A, with the stop command issued when 4 probes have completed.
\* The probes take equally long: they complete in the order they were started.
StopAfterFour == finished_count = 4 /\ StopRequest
ProbesFinishInOrder ==
    \A w \in Workers :
        (wpc[w] = "probing" /\ wpc'[w] # "probing")
        => \A v \in Workers : wpc[v] = "probing" => v >= w
WorkerStepInOrder == WorkerStep /\ ProbesFinishInOrder
NextB ==
    \/ ThreadStep \/ WorkerStepInOrder
    \/ DriverStart \/ DriverLoad \/ DriverGathered \/ DriverFinish
    \/ StopAfterFour \/ StopCommit \/ StopReturn
SpecB == InitA /\ [][NextB]_vars


\* ====================================================== claims
Active(c) == calls[c].phase # "none"
\* the call brings a non-terminal status / brings no status
NonTerminalArg(c) ==
    Active(c) /\ IsSome(calls[c].status) /\ Val(calls[c].status) \in NonTerminal
NoStatusArg(c) == Active(c) /\ calls[c].status = None
\* the step is a step of call c
Moved(c) == calls'[c] # calls[c]
\* the statuses the guard of _update_db protects
Guarded == {"canceled", "failure"}

\* An attempt of a call with a non-terminal status that reads a row whose status is
\* in S is rejected.
LaterCallRejected(S) ==
    \A c \in Callers :
        (NonTerminalArg(c) /\ calls[c].phase = "thread_read" /\ ledger.exists
           /\ ledger.status \in S /\ Moved(c))
        => (calls'[c].phase \in {"thread_read", "gave_up"} /\ ledger' = ledger)

\* The commit of a call with a non-terminal status that read a row whose status is
\* in S leaves the status as it is.
LaterCommitKeepsStatus(S) ==
    \A c \in Callers :
        (NonTerminalArg(c) /\ calls[c].phase = "thread_commit"
           /\ calls[c].seen \in S /\ Moved(c))
        => ledger'.status = ledger.status

C2_NoSuccessAfterCanceled == ever_canceled => ledger.status # "success"

\* C3: once the status is success, failure or canceled it never becomes pending,
\* running or a different terminal value, whoever writes.
C3_TerminalAbsorbing == [][ledger.status \in Terminal => ledger'.status = ledger.status]_vars

\* C4 (as stated): once the status is terminal, an Updater call that supplies only
\* progress and/or message changes no field of the ledger record and produces no
\* broadcast.
C4_Original ==
    [][\A c \in Callers :
          (NoStatusArg(c) /\ calls[c].phase = "thread_commit"
             /\ calls[c].seen \in Terminal /\ Moved(c))
          => (ledger' = ledger /\ calls'[c].phase # "broadcast")]_vars

\* C4 (amended): once the status is terminal, an Updater call that supplies only
\* progress and/or message is not dropped: it is admitted by the guard, its commit
\* leaves the status unchanged, and the committed record is broadcast.
C4_Amended ==
    [][\A c \in Callers :
          /\ (NoStatusArg(c) /\ calls[c].phase = "thread_read" /\ ledger.exists
                /\ ledger.status \in Terminal /\ Moved(c))
             => calls'[c].phase = "thread_commit"
          /\ (NoStatusArg(c) /\ calls[c].phase = "thread_commit"
                /\ calls[c].seen \in Terminal /\ Moved(c))
             => /\ ledger'.status = ledger.status
                /\ calls'[c].phase = "broadcast"
                /\ calls'[c].data = Some(ledger')]_vars

\* a progress-only call that read a terminal row has committed a new progress
C4_Witness ==
    \E c \in Callers :
        /\ NoStatusArg(c)
        /\ calls[c].phase = "broadcast"
        /\ calls[c].seen \in Terminal
        /\ ledger.status \in Terminal
        /\ ledger.progress = Val(calls[c].progress)
        /\ calls[c].dirty.progress


\* ------------------------------------------------------ batch runner claims
InFlight == {w \in Workers : wpc[w] = "probing"}
BatchOver == Workers # {} /\ \A w \in Workers : wpc[w] = "done"
DistinctUrls == {channels[i] : i \in 1 .. Len(channels)}
\* channels whose check result was written back
Persisted == {ch \in DOMAIN check_status : check_status[ch] # "none"}

\* C5: for a batch of N items and limit L, the number of probes in flight never
\* exceeds L.
C5_ConcurrencyCap == Cardinality(InFlight) <= concurrency

\* more items than the limit, the limit reached, items waiting
C5_Witness ==
    /\ total > concurrency
    /\ Cardinality(InFlight) = concurrency
    /\ waiters # << >>

\* C6: no URL is probed more than once, and a batch that ends with no cancellation
\* has probed every distinct URL of the input exactly once.
C6_Dedup ==
    /\ \A u \in DOMAIN probe_calls : probe_calls[u] <= 1
    /\ (BatchOver /\ ~local_aborted) =>
          /\ \A u \in DistinctUrls : probe_calls[u] = 1
          /\ finished_count = Cardinality(DistinctUrls)

\* a batch whose input had duplicate URLs ended with no cancellation
C6_Witness ==
    /\ BatchOver /\ ~local_aborted
    /\ Len(channels) > Cardinality(DistinctUrls)
    /\ Cardinality(DistinctUrls) > 1

\* C7: when a batch is canceled, the outcome of every item whose probe completed
\* before the flag was set is written back to its channel, and every item that never
\* started probing is marked canceled and has nothing written back.
C7_ForwardOnly ==
    batch_ret = "False" =>
        /\ \A w \in done_before_abort : check_status[unique_channels[w]] = results[w]
        /\ \A w \in Workers :
              probe_calls[channels[unique_channels[w]]] = 0 =>
                  (results[w] = "canceled" /\ check_status[unique_channels[w]] = "none")

\* C8: the progress values committed to the ledger never decrease, and neither do
\* the progress values delivered to any one observer.
C8_MonotonicProgress ==
    [][/\ ledger'.progress >= ledger.progress
       /\ \A o \in Observers :
             (IsSome(last_seen[o]) /\ IsSome(last_seen'[o]))
             => Val(last_seen'[o]) >= Val(last_seen[o])]_vars


\* the driver is over and the stop command took effect during the run
StoppedRun == dpc = "done" /\ ever_canceled

\* C9: in scenario B the runner returns the canceled outcome, exactly the 4 outcomes
\* completed before the stop are persisted, and the task's status ends canceled and is
\* never success once canceled.
C9_ScenarioB ==
    /\ ever_canceled => ledger.status # "success"
    /\ StoppedRun =>
          /\ batch_ret = "False"
          /\ ledger.status = "canceled"
          /\ Cardinality(Persisted) = 4
          /\ Persisted \subseteq {unique_channels[w] : w \in done_before_abort}

\* the driver's last Updater call has committed and is about to broadcast
FinalBroadcast ==
    /\ dpc = "await_final"
    /\ calls[DriverCaller].phase = "broadcast"

\* C10: in scenario A the runner returns the completed outcome, the outcomes of all
\* 10 items are persisted, the task's last broadcast carries progress 100 and the
\* task's final status is success.
C10_ScenarioA ==
    /\ FinalBroadcast =>
          /\ Val(calls[DriverCaller].data).progress = FinalProgress
          /\ Val(calls[DriverCaller].data).status = "success"
          /\ \A c \in Callers \ {DriverCaller} : ~Active(c)
    /\ dpc = "done" =>
          /\ batch_ret = "True"
          /\ Cardinality(Persisted) = 10
          /\ \A w \in Workers : check_status[unique_channels[w]] = Probe(UrlOf(w))
          /\ ledger.status = "success"
          /\ ledger.progress = FinalProgress
          /\ \A c \in Callers : ~Active(c)

\* the run of the 10 items is over
C10_Witness == dpc = "done" /\ finished_count = 10 /\ Cardinality(Persisted) = 10


\* ------------------------------------------------------ scenarios C and D
SuccessArg(c) == Active(c) /\ calls[c].status = Some("success")

\* C11: an attempt of an Updater call with status success that reads a failure row
\* changes no field of the ledger and delivers nothing to any observer, and a
\* call whose attempt read failure never broadcasts.
C11_ScenarioC ==
    [][\A c \in Callers :
          /\ (SuccessArg(c) /\ calls[c].phase = "thread_read" /\ ledger.exists
                /\ ledger.status = "failure" /\ Moved(c))
             => /\ ledger' = ledger
                /\ last_seen' = last_seen
                /\ calls'[c].phase \in {"thread_read", "gave_up"}
          /\ (SuccessArg(c) /\ Moved(c) /\ calls[c].seen = "failure")
             => (Active(c)' => calls'[c].phase # "broadcast")]_vars

\* a call with status success has used up its attempts on a failure row
C11_Witness ==
    \E c \in Callers :
        /\ SuccessArg(c)
        /\ calls[c].phase = "gave_up"
        /\ calls[c].seen = "failure"
        /\ calls[c].attempts = RetryAttempts
        /\ ledger.status = "failure"


\* the fields the call supplied and found different in the row it read hold the
\* supplied values in row
Applied(call, row) ==
    /\ call.dirty.status => row.status = Val(call.status)
    /\ call.dirty.progress => row.progress = Val(call.progress)
    /\ call.dirty.message => row.message = Val(call.message)

\* C12: a call for a task with no row makes at most 5 attempts; an attempt that finds
\* no row creates none, writes nothing and delivers nothing; after the 5th the call
\* ends with no broadcast; an attempt that finds the row (pending or running)
\* applies the update, and the committed record is broadcast.
C12_ScenarioD ==
    [][\A c \in Callers :
          /\ Active(c)' => calls'[c].attempts <= RetryAttempts
          /\ (Active(c) /\ calls[c].phase = "thread_read" /\ ~ledger.exists /\ Moved(c))
             => /\ ledger' = ledger
                /\ last_seen' = last_seen
                /\ calls'[c].attempts = calls[c].attempts + 1
                /\ calls'[c].phase =
                      IF calls'[c].attempts = RetryAttempts THEN "gave_up" ELSE "thread_read"
          /\ (Active(c) /\ calls[c].phase = "gave_up" /\ Moved(c))
             => (~Active(c)' /\ ledger' = ledger /\ last_seen' = last_seen)
          /\ (Active(c) /\ calls[c].phase = "thread_read" /\ calls[c].attempts > 0
                /\ ledger.exists /\ ledger.status \in NonTerminal /\ Moved(c))
             => calls'[c].phase = "thread_commit"
          /\ (Active(c) /\ calls[c].phase = "thread_commit" /\ Moved(c))
             => /\ Applied(calls[c], ledger')
                /\ calls'[c].phase = "broadcast"
                /\ calls'[c].data = Some(ledger')
          /\ (Active(c) /\ calls[c].phase = "broadcast" /\ Moved(c))
             => calls'[c].phase \in {"broadcast", "none"}]_vars

\* one call gave up after 5 attempts that found no row; another found no row at
\* first, then the row, and has delivered the committed record to the observer
C12_Witness ==
    \E c, d \in Callers :
        /\ Active(c) /\ calls[c].phase = "gave_up"
        /\ calls[c].attempts = RetryAttempts /\ calls[c].seen = "missing"
        /\ Active(d) /\ calls[d].phase = "broadcast"
        /\ calls[d].attempts > 0 /\ calls[d].bpos > 1
        /\ ledger.exists
        /\ last_seen["o1"] = Some(Val(calls[d].data).progress)


\* ------------------------------------------------------ stop command claims
\* the step is stop_task's entry (it is the only step that leaves stop_pc = "idle"
\* or sets the result while idle)
StopEntered == stop_pc = "idle" /\ stopvars' # stopvars

\* C13: stop_task on a task that is terminal or has no row changes no ledger field
\* and issues no Updater call and no broadcast; so a stop repeated after a stop
\* that canceled the task leaves the ledger as the first stop left it.
C13_StopIdempotent ==
    [][(StopEntered /\ (~ledger.exists \/ ledger.status \in Terminal))
        => /\ ledger' = ledger
           /\ calls' = calls
           /\ last_seen' = last_seen
           /\ stop_pc' = "idle"]_vars

\* a stop issued on the task after it was canceled has returned the error result
C13_Witness ==
    /\ stop_pc = "idle" /\ stop_result = "error"
    /\ ledger.exists /\ ledger.status = "canceled"


\* the step is stop_task's return after its Updater call
StopReturned == stop_pc = "await" /\ stop_pc' = "idle"

\* C14: stop_task on a pending or running task commits status canceled, has its
\* Updater call broadcast a record carrying status canceled, and returns success;
\* on a missing or terminal task it returns error.
C14_StopEffect ==
    [][/\ (StopEntered /\ Stoppable(ledger)) => stop_pc' = "commit"
       /\ (stop_pc = "commit" /\ stop_pc' # "commit") => ledger'.status = "canceled"
       /\ StopReturned =>
             /\ stop_result' = "success"
             /\ calls[StopCaller].phase = "broadcast"
             /\ Val(calls[StopCaller].data).status = "canceled"
       /\ (StopEntered /\ ~Stoppable(ledger)) => stop_result' = "error"]_vars


\* ------------------------------------------------------ hub claims
\* the step is a turn of c's broadcast loop / the end of c's broadcast
Sending(c) == Active(c) /\ calls[c].phase = "broadcast" /\ Moved(c) /\ Active(c)'
Returning(c) == Active(c) /\ calls[c].phase = "broadcast" /\ ~Active(c)'
\* the payloads o has received
Received(o) == {inbox[o][i] : i \in 1 .. Len(inbox[o])}

StayedConnected(o) ==
    /\ \E i \in 1 .. Len(HubFounders) : HubFounders[i] = o
    /\ ws[o] = "open"
\* a broadcast that has ended reached every observer that stayed connected
EveryBroadcastReceived ==
    \A c \in Callers :
        Returning(c) => \A o \in DOMAIN inbox : StayedConnected(o) => Payload(c) \in Received(o)
\* no two observers received two payloads in opposite orders
SameOrder ==
    \A o, p \in DOMAIN inbox :
        \A i, j \in 1 .. Len(inbox[o]) :
            i < j =>
                ~ \E k, l \in 1 .. Len(inbox[p]) :
                      k < l /\ inbox[p][k] = inbox[o][j] /\ inbox[p][l] = inbox[o][i]

\* C16: every observer that stays connected receives every broadcast, and the
\* observers receive the broadcasts in one and the same order (the order issued),
\* whatever connects or disconnects meanwhile and however many broadcasts run at once.
C16_AllInOrder == [][EveryBroadcastReceived /\ SameOrder']_vars


\* C17: whatever an observer does, a broadcast that has begun eventually returns,
\* and a batch worker that is reporting eventually finishes and gives back its
\* semaphore slot.
C17_NeverBlocks ==
    /\ \A c \in {DriverCaller, WorkerCaller(1), WorkerCaller(2), WorkerCaller(3)} :
          (calls[c].phase = "broadcast") ~> (calls[c].phase = "none")
    /\ \A w \in 1 .. 3 :
          (w \in DOMAIN wpc /\ wpc[w] = "report") ~> (w \in DOMAIN wpc /\ wpc[w] = "done")

\* C18: in each of the three job drivers, once the runner's cancellation flag was
\* set the runner returns False and the driver holds no update call with status
\* success for the task.
C18_NoSuccessAfterAbort ==
    local_aborted /\ batch_ret # "none" =>
        /\ batch_ret = "False"
        /\ ~ SuccessArg(DriverCaller)

\* C19: every task a job driver creates eventually has a terminal status in the
\* ledger, and the connected observer has received a payload with that status,
\* also when a step of the driver raised.
TerminalBroadcast(o) ==
    \E i \in 1 .. Len(inbox[o]) : inbox[o][i][2] = ledger.status
C19_TerminalSurfaced ==
    <>(ledger.status \in Terminal /\ TerminalBroadcast("o1"))

\* C20: a probe that raises leaves a failed outcome with an error for its item and
\* nothing else: when the batch is over and no cancellation occurred, the runner
\* returned True, every item was probed and has an outcome of its own, and the
\* outcomes, the failed ones with their error included, are written back.
Outcomes == {"ok", "fail", "error"}
C20_ItemIsolation ==
    (batch_ret # "none" /\ ~local_aborted) =>
        /\ batch_ret = "True"
        /\ \A w \in Workers :
              /\ probe_calls[UrlOf(w)] >= 1
              /\ results[w] \in Outcomes
              /\ check_status[unique_channels[w]] = results[w]
C20_Witness ==
    /\ batch_ret = "True"
    /\ ~local_aborted
    /\ \E w, v \in Workers :
          /\ w < v
          /\ results[w] = "error"
          /\ results[v] = "ok"
          /\ check_status[unique_channels[w]] = "error"

\* C21: when an exception escapes the batch runner, the driver calls the updater
\* with status failure and a message, and the commit of that call on a row it read
\* as not terminal leaves the ledger's status failure.
FailureArg(c) == Active(c) /\ calls[c].status = Some("failure")
RunnerRaised == batch_ret # "raised" /\ batch_ret' = "raised"
FailureCommitted ==
    /\ FailureArg(DriverCaller)
    /\ calls[DriverCaller].phase = "thread_commit"
    /\ calls'[DriverCaller].phase = "broadcast"
    /\ calls[DriverCaller].seen \notin Terminal
C21_BatchFailure ==
    [][/\ RunnerRaised => (FailureArg(DriverCaller)' /\ IsSome(calls'[DriverCaller].message))
       /\ FailureCommitted => ledger'.status = "failure"]_vars

\* C22: when the ledger holds canceled while an item of the batch is still queued,
\* the flag gets set and the runner returns the canceled outcome. As stated, for
\* any queued item; as amended, for a queued item of even index.
Queued(w) == wpc[w] \in {"init", "waiting"}
EvenIndex(w) == Idx(w) % 2 = 0
CanceledOutcome == local_aborted /\ batch_ret = "False"
C22_Original ==
    (ledger.status = "canceled" /\ \E w \in Workers : Queued(w)) ~> CanceledOutcome
C22_Amended ==
    (ledger.status = "canceled" /\ \E w \in Workers : Queued(w) /\ EvenIndex(w))
        ~> CanceledOutcome
C22_Witness ==
    /\ CanceledOutcome
    /\ \E v, w \in Workers :
          /\ v < w /\ EvenIndex(w)
          /\ results[v] = "ok"
          /\ results[w] = "canceled"
          /\ probe_calls[UrlOf(w)] = 0

\* C23: a call that is not rejected and runs with no other writer applies the
\* fields supplied and leaves the others. As stated: every supplied field is
\* applied. As amended: a status or a message is applied when supplied and not
\* empty, a progress whenever supplied, 0 included; a field unset or empty keeps
\* its value.
Committing(c) ==
    /\ Active(c)
    /\ calls[c].phase = "thread_commit"
    /\ calls'[c].phase = "broadcast"
InBroadcast(c) == Active(c) /\ calls[c].phase = "broadcast"
PublishedWasCommitted ==
    /\ \A c \in Callers : InBroadcast(c) =>
          IsSome(calls[c].data) /\ Val(calls[c].data) \in journal.rows
    /\ \A o \in DOMAIN inbox : \A i \in 1 .. Len(inbox[o]) :
          \E r \in journal.rows : inbox[o][i][2] = r.status /\ inbox[o][i][3] = r.progress
OneBroadcast ==
    \A c \in Callers :
        /\ Committing(c) => calls'[c].bpos = 1
        /\ (calls[c].phase = "thread_commit" /\ calls'[c] # calls[c]) => Committing(c)
        /\ InBroadcast(c) =>
              \/ InBroadcast(c)' /\ calls'[c].bpos >= calls[c].bpos
                                 /\ calls'[c].data = calls[c].data
              \/ ~ Active(c)'
C24_CommitThenPublish == [](PublishedWasCommitted) /\ [][OneBroadcast]_vars
C24_Witness ==
    /\ Len(inbox["o1"]) >= 2
    /\ inbox["o1"][1][1] = ClientCaller(1)
    /\ inbox["o1"][1][2] = "running"
    /\ inbox["o1"][2][1] = StopCaller
    /\ ledger.status = "canceled"

\* C25: the flag goes from false to true only; once it is set no probe is started,
\* and every item that was not yet probing returns canceled when it moves on,
\* from before the semaphore or from its queue.
FlagMonotone == local_aborted => local_aborted'
NoProbeAfterFlag == local_aborted => probe_calls' = probe_calls
QueuedReturnCanceled ==
    \A w \in Workers :
        (local_aborted /\ Queued(w) /\ wpc'[w] # wpc[w])
        => (wpc'[w] = "done" /\ results'[w] = "canceled")
C25_FlagStopsProbes ==
    [][FlagMonotone /\ NoProbeAfterFlag /\ QueuedReturnCanceled]_vars
C25_Witness ==
    /\ local_aborted
    /\ \E v, w \in Workers :
          /\ v < w
          /\ wpc[v] = "abort_update"
          /\ wpc[w] = "done" /\ results[w] = "canceled"
          /\ probe_calls[UrlOf(w)] = 0
          /\ \E x \in Workers : x > w /\ wpc[x] = "waiting"

\* C26: an item admitted with the flag unset reads the task's row when its index
\* is even and not when it is odd. The even one that reads canceled sets the flag,
\* calls the updater with status canceled and, when that call returns, ends with
\* the result canceled and no probe; every other one starts its probe.
Admitted(w) == Queued(w) /\ ~ Queued(w)' /\ ~ local_aborted
CanceledArg(c) == Active(c) /\ calls[c].status = Some("canceled")
C26_PeriodicPoll ==
    [][\A w \in Workers :
          /\ Admitted(w) =>
                IF EvenIndex(w) /\ ledger.status = "canceled"
                THEN /\ local_aborted'
                     /\ CanceledArg(WorkerCaller(w))'
                     /\ wpc'[w] = "abort_update"
                     /\ probe_calls' = probe_calls
                ELSE ledger.exists =>
                     /\ wpc'[w] = "probing"
                     /\ probe_calls'[UrlOf(w)] = probe_calls[UrlOf(w)] + 1
                     /\ ~ local_aborted'
          /\ (wpc[w] = "abort_update" /\ wpc'[w] # wpc[w]) =>
                /\ wpc'[w] = "done" /\ results'[w] = "canceled"
                /\ probe_calls' = probe_calls]_vars
C26_Witness ==
    /\ ledger.status = "canceled"
    /\ \E v, w \in Workers :
          /\ ~ EvenIndex(v) /\ wpc[v] = "probing"
          /\ EvenIndex(w) /\ wpc[w] = "abort_update"
          /\ CanceledArg(WorkerCaller(w))
          /\ probe_calls[UrlOf(w)] = 0

\* C27: once a commit has set the task's status to canceled, at most K = 2 further
\* items of the batch are admitted and start a probe.
C27_PromptnessBound == journal.late <= PollEvery

\* C28: nothing is written back while the workers run; when they have all finished
\* with the flag unset, the outcome of every distinct item is written back at
\* once, the runner returns True and the driver issues its success update. As
\* amended: run_output_visual_check_v2 issues it unless it then reads the task as
\* canceled, in which case it ends without an update.
NothingWritten == \A ch \in DOMAIN check_status : check_status[ch] = "none"
AllWritten ==
    \A w \in Workers :
        results[w] \in Outcomes /\ check_status[unique_channels[w]] = results[w]
RunnerReturns == batch_ret = "none" /\ batch_ret' # "none"
ProgressIssued(w) ==
    /\ ~ Active(WorkerCaller(w))
    /\ Active(WorkerCaller(w))'
    /\ calls'[WorkerCaller(w)].status = None
C29_RateLimit ==
    /\ [](journal.reports <= 21)
    /\ [][\A w \in Workers : ProgressIssued(w) =>
            LET p == Val(calls'[WorkerCaller(w)].progress) IN
              /\ p > last_reported_p
              /\ (p - last_reported_p >= 2 \/ finished_count' = total)
              /\ last_reported_p' = p]_vars
C29_Witness ==
    /\ total = LongBatch
    /\ finished_count = total
    /\ journal.reports = 20
    /\ last_reported_p = 98

\* C30: for a batch of N items and c of them completed, the runner's progress value
\* is 60 plus the integer part of 38*c/N; it does not decrease as c grows and lies
\* in 60..98; every progress value a driver or a worker hands to the updater, and
\* every one the ledger holds, lies in 0..100.
IsFloorShare(p, c, n) ==
    /\ (p - 60) * n <= 38 * c
    /\ 38 * c < (p - 60 + 1) * n
ComputedValues ==
    \A c \in 1 .. total :
        /\ IsFloorShare(ProgressVal(c, total), c, total)
        /\ ProgressVal(c, total) \in 60 .. 98
        /\ c > 1 => ProgressVal(c - 1, total) <= ProgressVal(c, total)
WrittenValues ==
    /\ ledger.exists => ledger.progress \in 0 .. 100
    /\ \A c \in Callers :
          (Active(c) /\ IsSome(calls[c].progress)) => Val(calls[c].progress) \in 0 .. 100
IssuedIsFloorShare ==
    \A w \in Workers : ProgressIssued(w) =>
        IsFloorShare(Val(calls'[WorkerCaller(w)].progress), finished_count', total)
C30_ProgressValue ==
    /\ [](ComputedValues /\ WrittenValues)
    /\ [][IssuedIsFloorShare]_vars
C30_Witness ==
    /\ total = 7
    /\ finished_count = 3
    /\ driver = "run_output_visual_check_v2"
    /\ \E w \in Workers :
          /\ Active(WorkerCaller(w))
          /\ calls[WorkerCaller(w)].progress = Some(76)
    /\ ledger.progress = 76

\* C31: when every probe returns, run_batch_check ends: every worker has finished,
\* the runner has returned, and every slot of the semaphore has been given back
\* with nobody left waiting for one.
AllWorkersDone == \A w \in Workers : wpc[w] = "done"
SlotsReturned == sem_value = concurrency /\ waiters = << >>
C31_BatchTerminates ==
    (dpc = "batch") ~> (batch_ret # "none" /\ AllWorkersDone /\ SlotsReturned)

\* C32: connect and disconnect act on the observers as on a set: a connected
\* observer has exactly one entry, also after connect is called for it again; a
\* disconnect of an observer that has no entry leaves the list as it is; once an
\* observer is disconnected it has no entry and receives no further broadcast.
Entries(o) == Cardinality({i \in 1 .. Len(active_connections) : active_connections[i] = o})
Left(o) == ws[o] \in {"detached", "closed"}
OneEntryEach ==
    \A o \in Observers :
        /\ Entries(o) <= 1
        /\ ws[o] = "open" => Entries(o) = 1
        /\ Left(o) => Entries(o) = 0
ConnectAgainKeeps ==
    (journal'.refused /\ ~ journal.refused) => active_connections' = active_connections
DisconnectAbsentKeeps ==
    \A o \in Observers :
        (~ Left(o) /\ Left(o)' /\ Entries(o) = 0) => active_connections' = active_connections
NothingAfterDisconnect ==
    \A o \in Observers : Left(o) => inbox'[o] = inbox[o] /\ last_seen'[o] = last_seen[o]
CreatedPending == (dpc = "start" /\ ~ ever_canceled) => ledger.status = "pending"
StartCommit ==
    /\ calls[DriverCaller].phase = "thread_commit"
    /\ calls[DriverCaller].status = Some("running")
    /\ dpc = "await_running"
RunningByDriver ==
    (ledger'.status = "running" /\ ledger.status # "running") => StartCommit
RunningBeforeItems ==
    (dpc = "batch" /\ ~ ever_canceled) => ledger.status = "running"
C33_PendingThenRunning ==
    /\ [](CreatedPending /\ RunningBeforeItems)
    /\ [][RunningByDriver]_vars

\* C34: every change of an existing row is the commit of an update_task_status
\* call. As amended: or the commit of the stop command, which sets the status to
\* canceled and the message and leaves the progress as it is.
RowChanged == ledger.exists /\ ledger' # ledger
StopWrites ==
    /\ stop_pc = "commit" /\ stop_pc' = "await"
    /\ ledger'.status = "canceled"
    /\ ledger'.progress = ledger.progress
C34_Original == [][RowChanged => \E c \in Callers : Committing(c)]_vars
C34_Amended == [][RowChanged => (StopWrites \/ \E c \in Callers : Committing(c))]_vars
C34_Witness ==
    /\ stop_pc = "await"
    /\ calls[StopCaller].phase = "thread_read"
    /\ calls[StopCaller].attempts = 0
    /\ ledger.status = "canceled"
    /\ ledger.message = Msg("user_stop", 0)
    /\ ledger.progress > ProgressBase
    /\ ~ local_aborted

\* C35: when the row is canceled as check_channels_task begins, then from that
\* moment on the driver's running update is never committed, no probe is invoked,
\* the item of index 0 sets the flag as soon as it has run, no outcome is written
\* back, the runner does not return True and the status stays canceled.
StoppedAtStart == dpc = "start" /\ ledger.status = "canceled"
NoProbeInvoked == \A u \in DOMAIN probe_calls : probe_calls[u] = 0
RunningNotApplied ==
    calls[DriverCaller].phase \in {"thread_commit", "broadcast"}
        => calls[DriverCaller].status # Some("running")
FirstItemSetsFlag ==
    (dpc = "batch" /\ Workers # {} /\ wpc[1] # "init") => local_aborted
StaysStopped ==
    /\ ledger.status = "canceled"
    /\ RunningNotApplied
    /\ NoProbeInvoked
    /\ FirstItemSetsFlag
    /\ NothingWritten
    /\ batch_ret \in {"none", "False"}
C35_StoppedBeforeStart == [](StoppedAtStart => []StaysStopped)
C35_Witness ==
    /\ dpc = "done"
    /\ batch_ret = "False"
    /\ Len(unique_channels) = 3
    /\ \A w \in Workers : results[w] = "canceled"
    /\ NoProbeInvoked
    /\ NothingWritten
    /\ ledger.status = "canceled"
    /\ \A row \in journal.rows : row.status \in {"pending", "canceled"}
    /\ ~ Active(StopCaller) /\ stop_result = "success"

\* C36: a batch run without a task and with no stop command never sets the
\* cancellation flag; when it is over every distinct item has been probed once,
\* the outcomes are written back and the runner has returned True.
C36_NoTaskCompletes ==
    /\ ~ local_aborted
    /\ (dpc = "done" /\ channels # << >>) =>
          /\ batch_ret = "True"
          /\ AllWritten
          /\ \A u \in DOMAIN probe_calls : probe_calls[u] = 1

\* C38: once the cancellation flag is set no worker issues a progress update, the
\* workers whose probe returns after that moment included.
NoProgressAfterFlag ==
    local_aborted => \A w \in Workers : ~ ProgressIssued(w)
C38_SilentAfterFlag == [][NoProgressAfterFlag]_vars
C38_Witness ==
    /\ local_aborted
    /\ last_reported_p >= ProgressBase
    /\ ProgressVal(finished_count, total) - last_reported_p >= MinProgressStep
    /\ \E w \in Workers :
          /\ wpc[w] = "done"
          /\ results[w] \in Outcomes
          /\ w \notin done_before_abort

\* C37: when fetch_subscription_task has ended because the task was canceled, the
\* committed channels of the subscription are the complete old set or the complete
\* newly fetched set.
CanceledSync == fetch.pc = "done" /\ fetch.ret = "canceled"
C37_NoCorruption ==
    CanceledSync => sub_channels \in {OldChannels, Fetched(fetch.total_urls)}

\* C39: the step of cleanup_tasks that changes the table deletes no task whose
\* status is pending or running and leaves every such task as it is, and it deletes
\* every task that it found with another status.
Deleting == cleanup.pc = "delete" /\ cleanup'.pc = "done"
ActiveKept ==
    \A id \in TaskRows :
        ~ Inactive(StatusOf(id)) => Present(id)' /\ StatusOf(id)' = StatusOf(id)
FoundDeleted == \A id \in cleanup.finished_tasks : ~ Present(id)'
C39_CleanupFrame == [][Deleting => ActiveKept /\ FoundDeleted]_vars

\* C40: for the EPG URL at most one _bg_refresh_at_url task is in flight at any
\* time; the requests that wait on a future not yet done all wait on the same
\* future, the one registered; and every future created is eventually done, with
\* every waiting request answered, whether the refresh succeeds or fails and
\* whether or not a timeout fires.
OneRefresh == Cardinality(Refreshing) <= 1
Blocked == {r \in DOMAIN requests : Waiting(r) /\ ~ Done(futures[requests[r].fut])}
SameFuture == \A r \in Blocked : pending_futures = {requests[r].fut}
FutureResolved == \A f \in RequestIds : (futures[f] = "pending") ~> Done(futures[f])
RequestAnswered == \A r \in RequestIds : Waiting(r) ~> (requests[r].pc = "returned")
C40_Coalescing == [](OneRefresh /\ SameFuture) /\ FutureResolved /\ RequestAnswered
C40_Witness ==
    /\ futures[1] = "result" /\ refreshes[1] = "ended"
    /\ \E r1, r2 \in DOMAIN requests :
          /\ r1 # r2
          /\ requests[r1].fut = 1 /\ requests[r1].ret = "program"
          /\ requests[r2].fut = 1 /\ requests[r2].ret = "program"
    /\ futures[2] = "pending" /\ refreshes[2] = "parse"
    /\ \E r3 \in Blocked : requests[r3].fut = 2

====
